---- MODULE Spec2Model ----
(***************************************************************************)
(* KeyBlitz training core: the spaced-repetition engine (src/core/srs.js), *)
(* the weighted command queue (src/core/queue.js), the countdown timer     *)
(* (createTimer, src/core/srs.js) and the scorer (calculateScore and        *)
(* SessionScorer).                                                         *)
(*                                                                         *)
(* JavaScript values are encoded as integers: timestamps, levels and       *)
(* counters are the non-negative integers they are in the program,         *)
(* `undefined` is Undefined and `null` is Null (both negative, so they     *)
(* never collide with a program number).                                   *)
(***************************************************************************)
EXTENDS Integers, Sequences, FiniteSets, TLC

VARIABLES
    now,        \* the wall clock read by Date.now(), in ms
    cmd,        \* the command state record under training (srs.js)
    hist,       \* the last updateCommandState calls: <<[pre, isCorrect, at]>>
    incorrectCalls, \* number of incorrect updateCommandState calls so far
    review,     \* last shouldReviewCommand call: <<>> or <<[count, at, result]>>
    commands,   \* the command list handed to selectNextCommand (queue.js)
    commandsIsArray, \* Array.isArray(commands)
    selection,  \* last selectNextCommand call: <<>> or <<[currentCommandIndex, at, result]>>
    weighing,   \* last getCommandWeights call: <<>> or <<result>>
    timer,      \* the closure variables of one createTimer(...) timer
    intervals,  \* ids of the intervals the host has scheduled (setInterval)
    events,     \* the last timer calls and callbacks: <<[name, value, calls]>>
    completions, \* onComplete invocations since the countdown began
    ranFor,     \* ms the clock advanced while the timer ran, since the countdown began
    atComplete, \* what the last onComplete found: <<>> or <<[isActive, isPaused, remaining, scheduled]>>
    scorer,     \* the fields of one SessionScorer
    attempt,    \* last recordAttempt call: <<>> or <<[pre, isCorrect, timeRemaining, maxTime, level, result]>>
    scoring,    \* last calculateScore call: <<>> or <<[timeRemaining, maxTime, level, combo, result]>>
    history,    \* isCorrect of every recordAttempt call since construction or the last reset()
    stats,      \* what getStats() returned, if it was the last call on the scorer: <<>> or <<stats>>
    game,       \* the GameController: commandStats, currentCommand, the timer's closure
    shown       \* the last commands presented by the controller: <<[originalIndex, at, alternatives]>>

trainingVars == <<now, cmd, hist, incorrectCalls, review, commands, commandsIsArray,
                  selection, weighing>>

timerVars == <<timer, intervals, events, completions, ranFor, atComplete>>

scorerVars == <<scorer, attempt, scoring, history, stats>>

controllerVars == <<game, shown>>

vars == <<trainingVars, timerVars, scorerVars, controllerVars>>

(***************************************************************************)
(* Bounds of the model                                                     *)
(***************************************************************************)
ClockStart == 1000          \* Date.now() at the first state (a positive timestamp)
ClockStep == 7500           \* the clock advances in steps of this many ms
MaxAdvances == 2            \* number of clock steps explored
MaxFailures == 2            \* cap on the lifetime failure counter
MaxSuccesses == 4           \* cap on the consecutive-success counter
MaxHist == 3                \* number of past calls remembered in hist
MaxCommands == 3            \* longest command list handed to the queue
RandomResolution == 12      \* Math.random() is u / RandomResolution, u in 0..RandomResolution-1
MaxEvents == 2              \* number of past timer calls and callbacks remembered in events
MaxTimeLimit == 15000       \* addTime keeps the timer's timeLimit within this many ms of 0
MaxCombo == 12              \* largest combo handed to calculateScore
MaxAttempts == 10           \* number of recordAttempt calls in a session
PackSize == 2               \* number of commands in the controller's pack
MaxAnswers == 4             \* number of answers and timeouts the controller handles

Undefined == -1             \* JavaScript undefined (a missing property)
Null == -2                  \* JavaScript null

ClockTimes == {ClockStart + k * ClockStep : k \in 0..MaxAdvances}

(***************************************************************************)
(* src/core/srs.js                                                         *)
(***************************************************************************)
SRS_INTERVALS == <<0, 3, 10, 25, 50, 100>>
SUCCESSES_TO_ADVANCE == 3
MAX_LEVEL == 5
estimatedMsPerCommand == 2500

\* a ?? b : b when a is null or undefined, else a
Coalesce(a, b) == IF a = Undefined \/ a = Null THEN b ELSE a

\* SRS_INTERVALS[level] ?? 0 (an out-of-range or missing index reads undefined)
IntervalOf(level) ==
    IF level \in 0..(Len(SRS_INTERVALS) - 1) THEN SRS_INTERVALS[level + 1] ELSE 0

\* calculateNextReview without the interval: every level is due at once
calculateNextReview_atOnce(level, currentTime) == currentTime

calculateNextReview(level, currentTime) ==
    IF level = 0
    THEN currentTime
    ELSE currentTime + IntervalOf(level) * estimatedMsPerCommand

\* updateCommandState with a lenient failure: one level down instead of the reset
updateCommandState_demote(command, isCorrect, currentTime) ==
    LET currentLevel == Coalesce(command.level, 0)
        currentSuccesses == Coalesce(command.successes, 0)
        currentFailures == Coalesce(command.failures, 0)
        incremented == currentSuccesses + 1
        advance == incremented >= SUCCESSES_TO_ADVANCE /\ currentLevel < MAX_LEVEL
        newLevel == IF isCorrect
                    THEN (IF advance THEN currentLevel + 1 ELSE currentLevel)
                    ELSE (IF currentLevel > 0 THEN currentLevel - 1 ELSE 0)
        newSuccesses == IF isCorrect
                        THEN (IF advance THEN 0 ELSE incremented)
                        ELSE 0
        newFailures == IF isCorrect THEN currentFailures ELSE currentFailures + 1
    IN  [command EXCEPT !.level = newLevel,
                        !.successes = newSuccesses,
                        !.failures = newFailures,
                        !.lastSeen = currentTime,
                        !.nextReview = calculateNextReview(newLevel, currentTime)]

\* updateCommandState advancing only when successes exceed the threshold (> for >=)
updateCommandState_late(command, isCorrect, currentTime) ==
    LET currentLevel == Coalesce(command.level, 0)
        currentSuccesses == Coalesce(command.successes, 0)
        currentFailures == Coalesce(command.failures, 0)
        incremented == currentSuccesses + 1
        advance == incremented > SUCCESSES_TO_ADVANCE /\ currentLevel < MAX_LEVEL
        newLevel == IF isCorrect
                    THEN (IF advance THEN currentLevel + 1 ELSE currentLevel)
                    ELSE 0
        newSuccesses == IF isCorrect
                        THEN (IF advance THEN 0 ELSE incremented)
                        ELSE 0
        newFailures == IF isCorrect THEN currentFailures ELSE currentFailures + 1
    IN  [command EXCEPT !.level = newLevel,
                        !.successes = newSuccesses,
                        !.failures = newFailures,
                        !.lastSeen = currentTime,
                        !.nextReview = calculateNextReview(newLevel, currentTime)]

\* updateCommandState without the newLevel < MAX_LEVEL test
updateCommandState_noCeiling(command, isCorrect, currentTime) ==
    LET currentLevel == Coalesce(command.level, 0)
        currentSuccesses == Coalesce(command.successes, 0)
        currentFailures == Coalesce(command.failures, 0)
        incremented == currentSuccesses + 1
        advance == incremented >= SUCCESSES_TO_ADVANCE
        newLevel == IF isCorrect
                    THEN (IF advance THEN currentLevel + 1 ELSE currentLevel)
                    ELSE 0
        newSuccesses == IF isCorrect
                        THEN (IF advance THEN 0 ELSE incremented)
                        ELSE 0
        newFailures == IF isCorrect THEN currentFailures ELSE currentFailures + 1
    IN  [command EXCEPT !.level = newLevel,
                        !.successes = newSuccesses,
                        !.failures = newFailures,
                        !.lastSeen = currentTime,
                        !.nextReview = calculateNextReview(newLevel, currentTime)]

\* updateCommandState that keeps the success streak across a failure
updateCommandState_keepStreak(command, isCorrect, currentTime) ==
    LET currentLevel == Coalesce(command.level, 0)
        currentSuccesses == Coalesce(command.successes, 0)
        currentFailures == Coalesce(command.failures, 0)
        incremented == currentSuccesses + 1
        advance == incremented >= SUCCESSES_TO_ADVANCE /\ currentLevel < MAX_LEVEL
        newLevel == IF isCorrect
                    THEN (IF advance THEN currentLevel + 1 ELSE currentLevel)
                    ELSE 0
        newSuccesses == IF isCorrect
                        THEN (IF advance THEN 0 ELSE incremented)
                        ELSE currentSuccesses
        newFailures == IF isCorrect THEN currentFailures ELSE currentFailures + 1
    IN  [command EXCEPT !.level = newLevel,
                        !.successes = newSuccesses,
                        !.failures = newFailures,
                        !.lastSeen = currentTime,
                        !.nextReview = calculateNextReview(newLevel, currentTime)]

\* updateCommandState that forgives one failure on every correct answer
updateCommandState_forgive(command, isCorrect, currentTime) ==
    LET currentLevel == Coalesce(command.level, 0)
        currentSuccesses == Coalesce(command.successes, 0)
        currentFailures == Coalesce(command.failures, 0)
        incremented == currentSuccesses + 1
        advance == incremented >= SUCCESSES_TO_ADVANCE /\ currentLevel < MAX_LEVEL
        newLevel == IF isCorrect
                    THEN (IF advance THEN currentLevel + 1 ELSE currentLevel)
                    ELSE 0
        newSuccesses == IF isCorrect
                        THEN (IF advance THEN 0 ELSE incremented)
                        ELSE 0
        newFailures == IF isCorrect
                       THEN (IF currentFailures > 0 THEN currentFailures - 1 ELSE 0)
                       ELSE currentFailures + 1
    IN  [command EXCEPT !.level = newLevel,
                        !.successes = newSuccesses,
                        !.failures = newFailures,
                        !.lastSeen = currentTime,
                        !.nextReview = calculateNextReview(newLevel, currentTime)]

\* updateCommandState scheduling the next review from the level BEFORE the transition
updateCommandState_oldLevel(command, isCorrect, currentTime) ==
    LET currentLevel == Coalesce(command.level, 0)
        currentSuccesses == Coalesce(command.successes, 0)
        currentFailures == Coalesce(command.failures, 0)
        incremented == currentSuccesses + 1
        advance == incremented >= SUCCESSES_TO_ADVANCE /\ currentLevel < MAX_LEVEL
        newLevel == IF isCorrect
                    THEN (IF advance THEN currentLevel + 1 ELSE currentLevel)
                    ELSE 0
        newSuccesses == IF isCorrect
                        THEN (IF advance THEN 0 ELSE incremented)
                        ELSE 0
        newFailures == IF isCorrect THEN currentFailures ELSE currentFailures + 1
    IN  [command EXCEPT !.level = newLevel,
                        !.successes = newSuccesses,
                        !.failures = newFailures,
                        !.lastSeen = currentTime,
                        !.nextReview = calculateNextReview(currentLevel, currentTime)]

updateCommandState(command, isCorrect, currentTime) ==
    LET currentLevel == Coalesce(command.level, 0)
        currentSuccesses == Coalesce(command.successes, 0)
        currentFailures == Coalesce(command.failures, 0)
        incremented == currentSuccesses + 1
        advance == incremented >= SUCCESSES_TO_ADVANCE /\ currentLevel < MAX_LEVEL
        newLevel == IF isCorrect
                    THEN (IF advance THEN currentLevel + 1 ELSE currentLevel)
                    ELSE 0
        newSuccesses == IF isCorrect
                        THEN (IF advance THEN 0 ELSE incremented)
                        ELSE 0
        newFailures == IF isCorrect THEN currentFailures ELSE currentFailures + 1
    IN  [command EXCEPT !.level = newLevel,
                        !.successes = newSuccesses,
                        !.failures = newFailures,
                        !.lastSeen = currentTime,
                        !.nextReview = calculateNextReview(newLevel, currentTime)]

\* The JavaScript value returned, as text: "true", "false", or the falsy
\* nextReview itself ("undefined", "null", "0") that `a && b` / `a || b` pass on.
shouldReviewCommand(command, commandsSinceLastSeen, currentTime) ==
    IF command.level = 0
    THEN "true"
    ELSE LET interval == IntervalOf(command.level)
             hasEnoughCommandsPassed == commandsSinceLastSeen >= interval
             hasEnoughTimePassed ==
                 IF command.nextReview = Undefined THEN "undefined"
                 ELSE IF command.nextReview = Null THEN "null"
                 ELSE IF command.nextReview = 0 THEN "0"
                 ELSE IF currentTime >= command.nextReview THEN "true"
                 ELSE "false"
         IN  IF hasEnoughCommandsPassed THEN "true" ELSE hasEnoughTimePassed

initializeCommandState(currentTime) ==
    [level |-> 0, successes |-> 0, failures |-> 0,
     lastSeen |-> Null, nextReview |-> currentTime]


(***************************************************************************)
(* src/core/queue.js                                                       *)
(*                                                                         *)
(* A weight 1/(level+1) is kept as the integer WeightUnit/(level+1), exact *)
(* for every level 0..5.  Math.random() is drawn from the grid             *)
(* u/RandomResolution; where floating-point rounding may leave the walk    *)
(* without a selection (a draw next to totalWeight), `drift` says it did.  *)
(***************************************************************************)
WeightUnit == 60

\* typeof x === 'number'
IsNumber(x) == x # Undefined /\ x # Null

RECURSIVE SumSeq(_)
SumSeq(seq) == IF seq = <<>> THEN 0 ELSE Head(seq) + SumSeq(Tail(seq))

\* index of the first command without a numeric level, 0 when there is none
FirstMissingLevel(cmds) ==
    IF \E i \in 1..Len(cmds) : ~IsNumber(cmds[i].level)
    THEN CHOOSE i \in 1..Len(cmds) :
            /\ ~IsNumber(cmds[i].level)
            /\ \A j \in 1..(i - 1) : IsNumber(cmds[j].level)
    ELSE 0

TypeError(message) == [kind |-> "TypeError", message |-> message]

\* getCommandWeights with the weight growing with the level (level + 1 for 1/(level + 1))
getCommandWeights_inverted(isArray, cmds) ==
    IF ~isArray
    THEN TypeError("commands must be an array")
    ELSE IF FirstMissingLevel(cmds) # 0
    THEN TypeError(cmds[FirstMissingLevel(cmds)].keys)
    ELSE [kind |-> "weights",
          weights |-> [i \in 1..Len(cmds) |-> (cmds[i].level + 1) * 10]]

getCommandWeights(isArray, cmds) ==
    IF ~isArray
    THEN TypeError("commands must be an array")
    ELSE IF FirstMissingLevel(cmds) # 0
    THEN TypeError(cmds[FirstMissingLevel(cmds)].keys)
    ELSE [kind |-> "weights",
          weights |-> [i \in 1..Len(cmds) |-> WeightUnit \div (cmds[i].level + 1)]]

\* Math.floor(Math.random() * n), as a 1-based position
RandomIndex(u, n) == ((u * n) \div RandomResolution) + 1

\* the walk stopping at the first command whatever the draw
WalkIndex_first(weights, u) == 1

\* the first i with random - weights[0] - ... - weights[i] <= 0,
\* for random = (u / RandomResolution) * totalWeight
WalkIndex(weights, u) ==
    LET totalWeight == SumSeq(weights)
    IN  CHOOSE i \in 1..Len(weights) :
            /\ u * totalWeight <= RandomResolution * SumSeq(SubSeq(weights, 1, i))
            /\ \A j \in 1..(i - 1) :
                  u * totalWeight > RandomResolution * SumSeq(SubSeq(weights, 1, j))

WithIndex(cmds) ==
    [i \in 1..Len(cmds) |->
        [keys |-> cmds[i].keys, level |-> cmds[i].level,
         nextReview |-> cmds[i].nextReview, originalIndex |-> i - 1]]

\* the nextReview filter with < for <=
IsDueAt_strict(c, at) ==
    \/ c.nextReview = Undefined
    \/ c.nextReview = Null
    \/ c.nextReview < at

IsDueAt(c, at) ==
    \/ c.nextReview = Undefined
    \/ c.nextReview = Null
    \/ c.nextReview <= at

dueCommands(cmds, at) == SelectSeq(WithIndex(cmds), LAMBDA c : IsDueAt(c, at))

\* the current command is not filtered out
availableCommands_keep(due, currentCommandIndex) == due

availableCommands(due, currentCommandIndex) ==
    SelectSeq(due, LAMBDA c : c.originalIndex # currentCommandIndex)

commandPool(due, currentCommandIndex) ==
    IF Len(availableCommands(due, currentCommandIndex)) > 0
    THEN availableCommands(due, currentCommandIndex)
    ELSE due

\* the priority level test with <= 1 for === 0
level0Commands_upTo1(pool) == SelectSeq(pool, LAMBDA c : IsNumber(c.level) /\ c.level <= 1)

level0Commands(pool) == SelectSeq(pool, LAMBDA c : c.level = 0)

NullResult == [kind |-> "null"]
Selected(c) == [kind |-> "command", command |-> c]

\* selectNextCommand without the final `return commandPool[commandPool.length - 1]`
selectNextCommand_noFallback(isArray, cmds, currentCommandIndex, at, u, drift) ==
    IF ~isArray THEN TypeError("commands must be an array")
    ELSE IF Len(cmds) = 0 THEN NullResult
    ELSE
    LET due == dueCommands(cmds, at)
        pool == commandPool(due, currentCommandIndex)
        level0 == level0Commands(pool)
        weights == getCommandWeights(TRUE, pool)
        totalWeight == SumSeq(weights.weights)
    IN  IF Len(due) = 0 THEN NullResult
        ELSE IF Len(level0) > 0
        THEN Selected(level0[RandomIndex(u, Len(level0))])
        ELSE IF weights.kind = "TypeError" THEN weights
        ELSE IF totalWeight = 0
        THEN Selected(pool[RandomIndex(u, Len(pool))])
        ELSE IF drift
        THEN [kind |-> "undefined"]
        ELSE Selected(pool[WalkIndex(weights.weights, u)])

selectNextCommand(isArray, cmds, currentCommandIndex, at, u, drift) ==
    IF ~isArray THEN TypeError("commands must be an array")
    ELSE IF Len(cmds) = 0 THEN NullResult
    ELSE
    LET due == dueCommands(cmds, at)
        pool == commandPool(due, currentCommandIndex)
        level0 == level0Commands(pool)
        weights == getCommandWeights(TRUE, pool)
        totalWeight == SumSeq(weights.weights)
    IN  IF Len(due) = 0 THEN NullResult
        ELSE IF Len(level0) > 0
        THEN Selected(level0[RandomIndex(u, Len(level0))])
        ELSE IF weights.kind = "TypeError" THEN weights
        ELSE IF totalWeight = 0
        THEN Selected(pool[RandomIndex(u, Len(pool))])
        ELSE IF drift
        THEN Selected(pool[Len(pool)])
        ELSE Selected(pool[WalkIndex(weights.weights, u)])

(***************************************************************************)
(* src/core/srs.js, createTimer: the countdown timer                       *)
(*                                                                         *)
(* Durations are kept in ms (the program's seconds * 1000), so that they   *)
(* stay integers next to Date.now().  A callback is what it does to the    *)
(* timer: "none" (not a function), "noop", or the method it calls.  The    *)
(* functions of the closure act on a world w: the closure variables        *)
(* (w.timer), the intervals the host has scheduled (w.intervals), the      *)
(* calls and callback invocations seen so far (w.events), the number of    *)
(* onComplete invocations since the countdown began (w.completions), the   *)
(* time the countdown has spent running (w.ranFor) and the state of the    *)
(* timer as the last onComplete found it (w.atComplete).                   *)
(***************************************************************************)
TickCallbacks == {"none", "noop", "stop", "pause"}
CompleteCallbacks == {"none", "noop", "stop"}

Max(a, b) == IF a >= b THEN a ELSE b

\* the last MaxEvents calls and callback invocations, oldest first
LastEvents(s) ==
    IF Len(s) <= MaxEvents THEN s ELSE SubSeq(s, Len(s) - MaxEvents + 1, Len(s))

\* w after the caller called the method `name`, or the timer the callback
\* `name`; `calls` is the timer method a callback calls in turn ("" for none)
Logged(w, name, value, calls) ==
    [w EXCEPT !.events =
        LastEvents(Append(@, [name |-> name, value |-> value, calls |-> calls]))]

\* the closure variables of a timer that was just created
createTimer(timeLimit, onTick, onComplete) ==
    [timeLimit |-> timeLimit, onTick |-> onTick, onComplete |-> onComplete,
     intervalId |-> Null, startTime |-> Null, remainingTime |-> timeLimit,
     isRunning |-> FALSE, isPaused |-> FALSE, pausedAt |-> Null,
     elapsedBeforePause |-> 0]

\* setInterval returns an id that no live interval has
setInterval(live) ==
    CHOOSE id \in 1..(Cardinality(live) + 1) :
        id \notin live /\ \A k \in 1..(id - 1) : k \in live

\* if (intervalId) { clearInterval(intervalId); intervalId = null; }
clearOwnInterval(w) ==
    IF w.timer.intervalId # Null
    THEN [w EXCEPT !.intervals = @ \ {w.timer.intervalId}, !.timer.intervalId = Null]
    ELSE w

\* updateRemaining without the Math.max(0, ...) clamp
updateRemaining_unclamped(w, at) ==
    IF ~w.timer.isRunning \/ w.timer.isPaused
    THEN w
    ELSE [w EXCEPT !.timer.remainingTime =
            w.timer.timeLimit - (at - w.timer.startTime) - w.timer.elapsedBeforePause]

\* the value returned is the remainingTime of the result
updateRemaining(w, at) ==
    IF ~w.timer.isRunning \/ w.timer.isPaused
    THEN w
    ELSE [w EXCEPT !.timer.remainingTime =
            Max(0, w.timer.timeLimit - (at - w.timer.startTime)
                       - w.timer.elapsedBeforePause)]

\* stop that leaves the paused flag as it was
stop_keepPaused(w) ==
    [clearOwnInterval(w) EXCEPT !.timer.isRunning = FALSE,
                                !.timer.remainingTime = 0]

stop(w) ==
    [clearOwnInterval(w) EXCEPT !.timer.isRunning = FALSE,
                                !.timer.isPaused = FALSE,
                                !.timer.remainingTime = 0]

\* pause that leaves its interval scheduled
pause_keepInterval(w, at) ==
    IF ~w.timer.isRunning \/ w.timer.isPaused
    THEN w
    ELSE [w EXCEPT !.timer.isPaused = TRUE,
                   !.timer.pausedAt = at,
                   !.timer.elapsedBeforePause = @ + (at - w.timer.startTime)]

pause(w, at) ==
    IF ~w.timer.isRunning \/ w.timer.isPaused
    THEN w
    ELSE clearOwnInterval(
            [w EXCEPT !.timer.isPaused = TRUE,
                      !.timer.pausedAt = at,
                      !.timer.elapsedBeforePause = @ + (at - w.timer.startTime)])

\* if (onTick && typeof onTick === 'function') onTick(remaining)
CallOnTick(w, remaining, at) ==
    IF w.timer.onTick = "none"
    THEN w
    ELSE CASE w.timer.onTick = "stop" ->
                stop(Logged(w, "onTick", remaining, "stop"))
           [] w.timer.onTick = "pause" ->
                pause(Logged(w, "onTick", remaining, "pause"), at)
           [] OTHER -> Logged(w, "onTick", remaining, "")

\* what a callback finds when it looks at the timer and at the host
Observed(w) ==
    [isActive |-> w.timer.isRunning /\ ~w.timer.isPaused,
     isPaused |-> w.timer.isPaused,
     remaining |-> w.timer.remainingTime,
     scheduled |-> Cardinality(w.intervals)]

\* if (onComplete && typeof onComplete === 'function') onComplete()
CallOnComplete(w) ==
    IF w.timer.onComplete = "none"
    THEN w
    ELSE LET called == [w EXCEPT !.completions = @ + 1,
                                 !.atComplete = <<Observed(w)>>]
         IN  IF w.timer.onComplete = "stop"
             THEN stop(Logged(called, "onComplete", Undefined, "stop"))
             ELSE Logged(called, "onComplete", Undefined, "")

\* tick that leaves the timer running when the time is up
tick_noStop(w, at) ==
    LET updated == updateRemaining(w, at)
        remaining == updated.timer.remainingTime
        ticked == CallOnTick(updated, remaining, at)
    IN  IF remaining <= 0 THEN CallOnComplete(ticked) ELSE ticked

\* tick that stops the timer only after onComplete has returned
tick_stopAfter(w, at) ==
    LET updated == updateRemaining(w, at)
        remaining == updated.timer.remainingTime
        ticked == CallOnTick(updated, remaining, at)
    IN  IF remaining <= 0 THEN stop(CallOnComplete(ticked)) ELSE ticked

\* tick that reports completion before the last onTick
tick_completeFirst(w, at) ==
    LET updated == updateRemaining(w, at)
        remaining == updated.timer.remainingTime
    IN  IF remaining <= 0
        THEN CallOnTick(CallOnComplete(stop(updated)), remaining, at)
        ELSE CallOnTick(updated, remaining, at)

tick(w, at) ==
    LET updated == updateRemaining(w, at)
        remaining == updated.timer.remainingTime
        ticked == CallOnTick(updated, remaining, at)
    IN  IF remaining <= 0 THEN CallOnComplete(stop(ticked)) ELSE ticked

\* start whose resume forgets the time already used
start_fromFull(w, at) ==
    IF w.timer.isRunning /\ ~w.timer.isPaused
    THEN w
    ELSE LET begun ==
                 IF w.timer.isPaused
                 THEN [w EXCEPT !.timer.isPaused = FALSE, !.timer.startTime = at,
                                !.timer.elapsedBeforePause = 0]
                 ELSE [w EXCEPT !.timer.startTime = at,
                                !.timer.remainingTime = w.timer.timeLimit,
                                !.timer.elapsedBeforePause = 0,
                                !.completions = 0,
                                !.ranFor = 0,
                                !.atComplete = <<>>]
             running == [begun EXCEPT !.timer.isRunning = TRUE]
             live == IF running.timer.intervalId # Null
                     THEN running.intervals \ {running.timer.intervalId}
                     ELSE running.intervals
             id == setInterval(live)
         IN  tick([running EXCEPT !.intervals = live \cup {id},
                                  !.timer.intervalId = id], at)

\* start that runs the first tick and schedules no interval
start_unscheduled(w, at) ==
    IF w.timer.isRunning /\ ~w.timer.isPaused
    THEN w
    ELSE LET begun ==
                 IF w.timer.isPaused
                 THEN [w EXCEPT !.timer.isPaused = FALSE, !.timer.startTime = at]
                 ELSE [w EXCEPT !.timer.startTime = at,
                                !.timer.remainingTime = w.timer.timeLimit,
                                !.timer.elapsedBeforePause = 0,
                                !.completions = 0,
                                !.ranFor = 0,
                                !.atComplete = <<>>]
             running == [begun EXCEPT !.timer.isRunning = TRUE]
             live == IF running.timer.intervalId # Null
                     THEN running.intervals \ {running.timer.intervalId}
                     ELSE running.intervals
             id == setInterval(live)
         IN  tick([running EXCEPT !.intervals = live], at)

start(w, at) ==
    IF w.timer.isRunning /\ ~w.timer.isPaused
    THEN w
    ELSE LET begun ==
                 IF w.timer.isPaused
                 THEN [w EXCEPT !.timer.isPaused = FALSE, !.timer.startTime = at]
                 ELSE [w EXCEPT !.timer.startTime = at,
                                !.timer.remainingTime = w.timer.timeLimit,
                                !.timer.elapsedBeforePause = 0,
                                !.completions = 0,
                                !.ranFor = 0,
                                !.atComplete = <<>>]
             running == [begun EXCEPT !.timer.isRunning = TRUE]
             live == IF running.timer.intervalId # Null
                     THEN running.intervals \ {running.timer.intervalId}
                     ELSE running.intervals
             id == setInterval(live)
         IN  tick([running EXCEPT !.intervals = live \cup {id},
                                  !.timer.intervalId = id], at)

\* getRemaining that recomputes from the clock even while paused
getRemaining_drifting(w, at) ==
    IF ~w.timer.isRunning
    THEN w
    ELSE [w EXCEPT !.timer.remainingTime =
            Max(0, w.timer.timeLimit - (at - w.timer.startTime)
                       - w.timer.elapsedBeforePause)]

\* the value returned is the remainingTime of the result
getRemaining(w, at) ==
    IF w.timer.isPaused THEN w ELSE updateRemaining(w, at)

isActive(t) == t.isRunning /\ ~t.isPaused

isPausedState(t) == t.isPaused

addTime(w, seconds) ==
    [w EXCEPT !.timer.timeLimit = @ + seconds,
              !.timer.remainingTime = Max(0, @ + seconds)]

(***************************************************************************)
(* The scorer: calculateScore, updateCombo, getComboMultiplier and         *)
(* SessionScorer                                                           *)
(*                                                                         *)
(* Times are kept in ms (the program's seconds * 1000).  The program       *)
(* computes in IEEE-754 doubles: (timeRemaining / maxTime) * 50 is exact   *)
(* when the quotient is a binary fraction, and then so is the score.  Of   *)
(* the inputs explored only the quotient 2/3 is not: it rounds down, and   *)
(* when the exact product is an integer the computed product ends just     *)
(* below it (RoundsBelow), so Math.floor returns one less.                 *)
(***************************************************************************)
\* getComboMultiplier counting from 0
getComboMultiplier_fromZero(combo) ==
    LET clamped == IF combo < 0 THEN 0 ELSE combo
    IN  clamped \div 5

getComboMultiplier(combo) ==
    LET clamped == IF combo < 0 THEN 0 ELSE combo
    IN  (clamped \div 5) + 1

\* updateCombo where a failure takes one off the streak
updateCombo_forgiving(isCorrect, currentCombo) ==
    LET clamped == IF currentCombo < 0 THEN 0 ELSE currentCombo
    IN  IF isCorrect THEN clamped + 1 ELSE Max(clamped - 1, 0)

updateCombo(isCorrect, currentCombo) ==
    LET clamped == IF currentCombo < 0 THEN 0 ELSE currentCombo
    IN  IF isCorrect THEN clamped + 1 ELSE 0

\* the double product (100 + (timeRemaining / maxTime) * 50) * levelMultiplier
\* * comboMultiplier ends just below the integer it stands for
RoundsBelow(timeRemaining, maxTime, levelMultiplier, comboMultiplier) ==
    /\ 3 * timeRemaining = 2 * maxTime
    /\ (levelMultiplier * comboMultiplier) % 3 = 0

\* calculateScore without the level > 5 clamp
calculateScore_noCeiling(timeRemaining, maxTime, level, combo) ==
    LET time == IF timeRemaining < 0 THEN 0 ELSE timeRemaining
        max == IF maxTime <= 0 THEN 1000 ELSE maxTime
        lvl == IF level < 0 THEN 0 ELSE level
        cmb == IF combo < 0 THEN 0 ELSE combo
        basePoints == 100
        levelMultiplier == lvl + 1
        comboMultiplier == getComboMultiplier(cmb)
        floor == ((basePoints * max + 50 * time) * levelMultiplier * comboMultiplier)
                    \div max
    IN  IF RoundsBelow(time, max, levelMultiplier, comboMultiplier)
        THEN floor - 1
        ELSE floor

calculateScore(timeRemaining, maxTime, level, combo) ==
    LET time == IF timeRemaining < 0 THEN 0 ELSE timeRemaining
        max == IF maxTime <= 0 THEN 1000 ELSE maxTime
        lvl == IF level < 0 THEN 0 ELSE IF level > 5 THEN 5 ELSE level
        cmb == IF combo < 0 THEN 0 ELSE combo
        basePoints == 100
        levelMultiplier == lvl + 1
        comboMultiplier == getComboMultiplier(cmb)
        floor == ((basePoints * max + 50 * time) * levelMultiplier * comboMultiplier)
                    \div max
    IN  IF RoundsBelow(time, max, levelMultiplier, comboMultiplier)
        THEN floor - 1
        ELSE floor

\* new SessionScorer()
SessionScorer ==
    [totalScore |-> 0, currentCombo |-> 0, bestCombo |-> 0,
     correctCount |-> 0, incorrectCount |-> 0]

\* recordAttempt scoring with the combo as it was before this attempt
recordAttempt_oldCombo(this, isCorrect, timeRemaining, maxTime, level) ==
    LET currentCombo == updateCombo(isCorrect, this.currentCombo)
        bestCombo == IF currentCombo > this.bestCombo THEN currentCombo
                     ELSE this.bestCombo
        earnedScore == calculateScore(timeRemaining, maxTime, level, this.currentCombo)
    IN  IF isCorrect
        THEN [this |-> [this EXCEPT !.currentCombo = currentCombo,
                                    !.bestCombo = bestCombo,
                                    !.correctCount = @ + 1,
                                    !.totalScore = @ + earnedScore],
              result |-> [score |-> earnedScore, combo |-> currentCombo,
                          totalScore |-> this.totalScore + earnedScore,
                          isCorrect |-> TRUE]]
        ELSE [this |-> [this EXCEPT !.currentCombo = currentCombo,
                                    !.bestCombo = bestCombo,
                                    !.incorrectCount = @ + 1],
              result |-> [score |-> 0, combo |-> currentCombo,
                          totalScore |-> this.totalScore, isCorrect |-> FALSE]]

\* recordAttempt that lets a failure keep the streak
recordAttempt_keepCombo(this, isCorrect, timeRemaining, maxTime, level) ==
    LET currentCombo == IF isCorrect THEN updateCombo(isCorrect, this.currentCombo)
                        ELSE this.currentCombo
        bestCombo == IF currentCombo > this.bestCombo THEN currentCombo
                     ELSE this.bestCombo
        earnedScore == calculateScore(timeRemaining, maxTime, level, currentCombo)
    IN  IF isCorrect
        THEN [this |-> [this EXCEPT !.currentCombo = currentCombo,
                                    !.bestCombo = bestCombo,
                                    !.correctCount = @ + 1,
                                    !.totalScore = @ + earnedScore],
              result |-> [score |-> earnedScore, combo |-> currentCombo,
                          totalScore |-> this.totalScore + earnedScore,
                          isCorrect |-> TRUE]]
        ELSE [this |-> [this EXCEPT !.currentCombo = currentCombo,
                                    !.bestCombo = bestCombo,
                                    !.incorrectCount = @ + 1],
              result |-> [score |-> 0, combo |-> currentCombo,
                          totalScore |-> this.totalScore, isCorrect |-> FALSE]]

\* the accumulator after the call (this) and the object returned (result)
recordAttempt(this, isCorrect, timeRemaining, maxTime, level) ==
    LET currentCombo == updateCombo(isCorrect, this.currentCombo)
        bestCombo == IF currentCombo > this.bestCombo THEN currentCombo
                     ELSE this.bestCombo
        earnedScore == calculateScore(timeRemaining, maxTime, level, currentCombo)
    IN  IF isCorrect
        THEN [this |-> [this EXCEPT !.currentCombo = currentCombo,
                                    !.bestCombo = bestCombo,
                                    !.correctCount = @ + 1,
                                    !.totalScore = @ + earnedScore],
              result |-> [score |-> earnedScore, combo |-> currentCombo,
                          totalScore |-> this.totalScore + earnedScore,
                          isCorrect |-> TRUE]]
        ELSE [this |-> [this EXCEPT !.currentCombo = currentCombo,
                                    !.bestCombo = bestCombo,
                                    !.incorrectCount = @ + 1],
              result |-> [score |-> 0, combo |-> currentCombo,
                          totalScore |-> this.totalScore, isCorrect |-> FALSE]]

\* Math.round(numerator / denominator): to the nearest integer, a half upwards
Round(numerator, denominator) ==
    (2 * numerator + denominator) \div (2 * denominator)

\* getStats reporting the accuracy over the correct attempts only
getStats_ofCorrect(this) ==
    LET totalAttempts == this.correctCount
        accuracy == IF totalAttempts > 0
                    THEN Round(1000 * this.correctCount, totalAttempts)
                    ELSE 0
    IN  [totalScore |-> this.totalScore, currentCombo |-> this.currentCombo,
         bestCombo |-> this.bestCombo, correctCount |-> this.correctCount,
         incorrectCount |-> this.incorrectCount,
         totalAttempts |-> totalAttempts, accuracy |-> accuracy]

\* accuracy is kept in tenths of a percent: Math.round(accuracy * 10), which
\* the program then divides by 10
getStats(this) ==
    LET totalAttempts == this.correctCount + this.incorrectCount
        accuracy == IF totalAttempts > 0
                    THEN Round(1000 * this.correctCount, totalAttempts)
                    ELSE 0
    IN  [totalScore |-> this.totalScore, currentCombo |-> this.currentCombo,
         bestCombo |-> this.bestCombo, correctCount |-> this.correctCount,
         incorrectCount |-> this.incorrectCount,
         totalAttempts |-> totalAttempts, accuracy |-> accuracy]

\* reset() that clears the score and the streaks only
reset_keepCounts(this) ==
    [this EXCEPT !.totalScore = 0, !.currentCombo = 0, !.bestCombo = 0]

\* the accumulator after reset()
reset(this) ==
    [totalScore |-> 0, currentCombo |-> 0, bestCombo |-> 0,
     correctCount |-> 0, incorrectCount |-> 0]

(***************************************************************************)
(* State machine of the SRS engine: a caller answers the command under     *)
(* training (updateCommandState at Date.now()), asks whether it is due     *)
(* (shouldReviewCommand), and time passes.                                 *)
(***************************************************************************)
NoCommands == <<>>

\* no timer is in use: one that was created and never started
NoTimer ==
    /\ timer = createTimer(0, "none", "none")
    /\ intervals = {}
    /\ events = <<>>
    /\ completions = 0
    /\ ranFor = 0
    /\ atComplete = <<>>

\* the command states updateCommandState and shouldReviewCommand accept
CommandStates ==
    [level : 0..MAX_LEVEL \cup {Undefined},
     successes : 0..MaxSuccesses \cup {Undefined},
     failures : 0..MaxFailures \cup {Undefined},
     lastSeen : {Null, ClockStart},
     nextReview : {Undefined, Null} \cup ClockTimes]

\* the commandsSinceLastSeen values explored: both sides of every interval
ReviewCounts == {0, 2, 3, 9, 10, 24, 25, 49, 50, 99, 100}

Remember(h, entry) ==
    IF Len(h) < MaxHist THEN Append(h, entry) ELSE Append(Tail(h), entry)

\* the controller is not mounted
NoGame ==
    /\ game = [commandStats |-> <<>>, currentCommand |-> <<>>, staleCommand |-> <<>>,
               countdown |-> FALSE, awaiting |-> FALSE, handled |-> 0]
    /\ shown = <<>>

\* no scorer is in use: a new accumulator, no calls
NoScorer ==
    /\ scorer = SessionScorer
    /\ attempt = <<>>
    /\ scoring = <<>>
    /\ history = <<>>
    /\ stats = <<>>

\* A session starts from initializeCommandState(cmd) at Date.now().
InitSRS ==
    /\ now = ClockStart
    /\ cmd = initializeCommandState(now)
    /\ hist = <<>>
    /\ incorrectCalls = 0
    /\ review = <<>>
    /\ commands = NoCommands
    /\ commandsIsArray = TRUE
    /\ selection = <<>>
    /\ weighing = <<>>
    /\ NoTimer
    /\ NoScorer
    /\ NoGame

\* The functions applied to any command state a caller may hand them.
InitAnyState ==
    /\ now = ClockStart
    /\ cmd \in CommandStates
    /\ hist = <<>>
    /\ incorrectCalls = 0
    /\ review = <<>>
    /\ commands = NoCommands
    /\ commandsIsArray = TRUE
    /\ selection = <<>>
    /\ weighing = <<>>
    /\ NoTimer
    /\ NoScorer
    /\ NoGame

AdvanceClock ==
    /\ now < ClockStart + MaxAdvances * ClockStep
    /\ now' = now + ClockStep
    /\ review' = <<>>
    /\ selection' = <<>>
    /\ weighing' = <<>>
    /\ ranFor' = IF isActive(timer) THEN ranFor + ClockStep ELSE ranFor
    /\ UNCHANGED <<timer, intervals, events, completions, atComplete>>
    /\ UNCHANGED scorerVars
    /\ UNCHANGED controllerVars
    /\ UNCHANGED <<cmd, hist, incorrectCalls, commands, commandsIsArray>>

\* cmd = updateCommandState(cmd, isCorrect) with currentTime = Date.now()
Answer(isCorrect) ==
    /\ isCorrect => Coalesce(cmd.successes, 0) < MaxSuccesses
    /\ ~isCorrect => Coalesce(cmd.failures, 0) < MaxFailures
    /\ cmd' = updateCommandState(cmd, isCorrect, now)
    /\ hist' = Remember(hist, [pre |-> cmd, isCorrect |-> isCorrect, at |-> now])
    /\ incorrectCalls' = IF isCorrect THEN incorrectCalls ELSE incorrectCalls + 1
    /\ review' = <<>>
    /\ UNCHANGED timerVars
    /\ UNCHANGED scorerVars
    /\ UNCHANGED controllerVars
    /\ UNCHANGED <<now, commands, commandsIsArray, selection, weighing>>

\* shouldReviewCommand(cmd, count) with currentTime = Date.now()
ShouldReview(count) ==
    /\ review' = <<[count |-> count, at |-> now,
                    result |-> shouldReviewCommand(cmd, count, now)]>>
    /\ UNCHANGED timerVars
    /\ UNCHANGED scorerVars
    /\ UNCHANGED controllerVars
    /\ UNCHANGED <<now, cmd, hist, incorrectCalls, commands, commandsIsArray, selection,
                   weighing>>

NextSRS ==
    \/ AdvanceClock
    \/ \E isCorrect \in BOOLEAN : Answer(isCorrect)

NextReview ==
    \/ AdvanceClock
    \/ \E count \in ReviewCounts : ShouldReview(count)

\* a training session of one command, from initializeCommandState
SpecSRS == InitSRS /\ [][NextSRS]_vars

\* updateCommandState applied, repeatedly, to any command state
SpecAnyState == InitAnyState /\ [][NextSRS]_vars

\* shouldReviewCommand applied to any command state at any time
SpecReview == InitAnyState /\ [][NextReview]_vars

(***************************************************************************)
(* State machine of the queue: selectNextCommand is called, at Date.now(), *)
(* on any command list with any currentCommandIndex, and time passes.      *)
(***************************************************************************)
KeyNames == <<"dd", "yy", "cc", "gg", "ww", "pp">>
QueueLevels == {0, 1, 5, Undefined}
QueueReviews == {Undefined, Null, ClockStart + ClockStep}

CommandLists ==
    UNION { { [i \in 1..n |-> [keys |-> KeyNames[i], level |-> f[i][1],
                               nextReview |-> f[i][2]]] :
              f \in [1..n -> QueueLevels \X QueueReviews] } : n \in 0..MaxCommands }

\* null, every valid index, and one index past the end
CurrentIndexes(cmds) == {Null} \cup 0..Len(cmds)

InitQueue ==
    /\ now = ClockStart
    /\ cmd = initializeCommandState(now)
    /\ hist = <<>>
    /\ incorrectCalls = 0
    /\ review = <<>>
    /\ \/ commandsIsArray = TRUE /\ commands \in CommandLists
       \/ commandsIsArray = FALSE /\ commands = NoCommands
    /\ selection = <<>>
    /\ weighing = <<>>
    /\ NoTimer
    /\ NoScorer
    /\ NoGame

\* selection = selectNextCommand(commands, currentCommandIndex)
SelectNext(currentCommandIndex) ==
    /\ selection = <<>>
    /\ weighing = <<>>
    /\ \E u \in 0..(RandomResolution - 1), drift \in BOOLEAN :
          \* rounding can leave the walk above 0 only for a draw next to totalWeight
          /\ drift => u = RandomResolution - 1
          /\ selection' = <<[currentCommandIndex |-> currentCommandIndex, at |-> now,
                          result |-> selectNextCommand(commandsIsArray, commands,
                                          currentCommandIndex, now, u, drift)]>>
    /\ UNCHANGED timerVars
    /\ UNCHANGED scorerVars
    /\ UNCHANGED controllerVars
    /\ UNCHANGED <<now, cmd, hist, incorrectCalls, review, commands, commandsIsArray,
                   weighing>>

\* weighing = getCommandWeights(commands)
GetWeights ==
    /\ selection = <<>>
    /\ weighing = <<>>
    /\ weighing' = <<getCommandWeights(commandsIsArray, commands)>>
    /\ UNCHANGED timerVars
    /\ UNCHANGED scorerVars
    /\ UNCHANGED controllerVars
    /\ UNCHANGED <<now, cmd, hist, incorrectCalls, review, commands, commandsIsArray,
                   selection>>

NextQueue ==
    \/ AdvanceClock
    \/ \E currentCommandIndex \in CurrentIndexes(commands) : SelectNext(currentCommandIndex)
    \/ GetWeights

\* selectNextCommand applied to any command list at any time
SpecQueue == InitQueue /\ [][NextQueue]_vars

\* the lists getCommandWeights is applied to: every level 0..5, or none
WeightLists ==
    UNION { { [i \in 1..n |-> [keys |-> KeyNames[i], level |-> f[i],
                               nextReview |-> Undefined]] :
              f \in [1..n -> 0..MAX_LEVEL \cup {Undefined}] } : n \in 0..MaxCommands }

InitWeights ==
    /\ now = ClockStart
    /\ cmd = initializeCommandState(now)
    /\ hist = <<>>
    /\ incorrectCalls = 0
    /\ review = <<>>
    /\ \/ commandsIsArray = TRUE /\ commands \in WeightLists
       \/ commandsIsArray = FALSE /\ commands = NoCommands
    /\ selection = <<>>
    /\ weighing = <<>>
    /\ NoTimer
    /\ NoScorer
    /\ NoGame

NextWeights == GetWeights

\* getCommandWeights applied to any command list
SpecWeights == InitWeights /\ [][NextWeights]_vars

(***************************************************************************)
(* State machine of the timer: a caller creates a timer, calls its methods *)
(* in any order, the host fires the scheduled tick, and time passes.       *)
(***************************************************************************)
\* the durations a timer is created with: 0, and 5 s and 10 s in ms
TimeLimits == {0, 5000, 10000}

\* the addTime arguments explored, in ms: a bonus and a large penalty
TimeDeltas == {5000, -20000}

World ==
    [timer |-> timer, intervals |-> intervals, events |-> events,
     completions |-> completions, ranFor |-> ranFor, atComplete |-> atComplete]

Becomes(w) ==
    /\ timer' = w.timer
    /\ intervals' = w.intervals
    /\ events' = w.events
    /\ completions' = w.completions
    /\ ranFor' = w.ranFor
    /\ atComplete' = w.atComplete

InitTimer ==
    /\ now = ClockStart
    /\ cmd = initializeCommandState(now)
    /\ hist = <<>>
    /\ incorrectCalls = 0
    /\ review = <<>>
    /\ commands = NoCommands
    /\ commandsIsArray = TRUE
    /\ selection = <<>>
    /\ weighing = <<>>
    /\ \E timeLimit \in TimeLimits, onTick \in TickCallbacks,
          onComplete \in CompleteCallbacks :
          timer = createTimer(timeLimit, onTick, onComplete)
    /\ intervals = {}
    /\ events = <<>>
    /\ completions = 0
    /\ ranFor = 0
    /\ atComplete = <<>>
    /\ NoScorer
    /\ NoGame

\* timer.start()
Start ==
    /\ Becomes(start(Logged(World, "start", Undefined, ""), now))
    /\ UNCHANGED <<trainingVars, scorerVars, controllerVars>>

\* timer.stop()
Stop ==
    /\ Becomes(stop(Logged(World, "stop", Undefined, "")))
    /\ UNCHANGED <<trainingVars, scorerVars, controllerVars>>

\* timer.pause()
Pause ==
    /\ Becomes(pause(Logged(World, "pause", Undefined, ""), now))
    /\ UNCHANGED <<trainingVars, scorerVars, controllerVars>>

\* timer.getRemaining()
GetRemaining ==
    /\ LET got == getRemaining(World, now)
       IN  Becomes(Logged(got, "getRemaining", got.timer.remainingTime, ""))
    /\ UNCHANGED <<trainingVars, scorerVars, controllerVars>>

\* timer.addTime(seconds)
AddTime(seconds) ==
    /\ timer.timeLimit + seconds \in (0 - MaxTimeLimit)..MaxTimeLimit
    /\ Becomes(addTime(Logged(World, "addTime", seconds, ""), seconds))
    /\ UNCHANGED <<trainingVars, scorerVars, controllerVars>>

\* the host runs the callback of a scheduled interval
TickFires ==
    /\ intervals # {}
    /\ Becomes(tick(World, now))
    /\ UNCHANGED <<trainingVars, scorerVars, controllerVars>>

NextTimer ==
    \/ AdvanceClock
    \/ Start
    \/ Stop
    \/ Pause
    \/ GetRemaining
    \/ \E seconds \in TimeDeltas : AddTime(seconds)
    \/ TickFires

\* one timer, used in any way, over any passage of time
SpecTimer == InitTimer /\ [][NextTimer]_vars

\* callbacks that leave the timer alone until it has completed
QuietTickCallbacks == {"none", "noop"}

InitTimerLive ==
    /\ InitTimer
    /\ timer.onTick \in QuietTickCallbacks

\* the timer is started and read, never paused, stopped or extended
NextTimerLive ==
    \/ AdvanceClock
    \/ Start
    \/ GetRemaining
    \/ TickFires

\* the clock keeps advancing (as far as it is explored) and the host keeps
\* running the scheduled tick
SpecTimerLive ==
    InitTimerLive /\ [][NextTimerLive]_vars
        /\ WF_vars(AdvanceClock) /\ WF_vars(TickFires)

(***************************************************************************)
(* State machine of one command seen by both components: it is trained     *)
(* with updateCommandState, shouldReviewCommand is asked about it and      *)
(* selectNextCommand is handed a list holding it, as the controller does   *)
(* with { ...cmd, ...commandStats[cmd.keys] }.                             *)
(***************************************************************************)
\* { ...cmd, ...state }: the pack's command with its SRS state, as the queue reads it
commandWithState(keys, state) ==
    [keys |-> keys, level |-> state.level, nextReview |-> state.nextReview]

\* cmd = updateCommandState(cmd, isCorrect) at Date.now(); the calls made on
\* the command as it was are forgotten
Train(isCorrect) ==
    /\ isCorrect => Coalesce(cmd.successes, 0) < MaxSuccesses
    /\ ~isCorrect => Coalesce(cmd.failures, 0) < MaxFailures
    /\ cmd' = updateCommandState(cmd, isCorrect, now)
    /\ hist' = Remember(hist, [pre |-> cmd, isCorrect |-> isCorrect, at |-> now])
    /\ incorrectCalls' = IF isCorrect THEN incorrectCalls ELSE incorrectCalls + 1
    /\ review' = <<>>
    /\ selection' = <<>>
    /\ commands' = NoCommands
    /\ UNCHANGED timerVars
    /\ UNCHANGED scorerVars
    /\ UNCHANGED controllerVars
    /\ UNCHANGED <<now, commandsIsArray, weighing>>

\* selection = selectNextCommand([{ ...cmd }]) at Date.now()
SelectTrained ==
    /\ selection = <<>>
    /\ \E u \in 0..(RandomResolution - 1), drift \in BOOLEAN :
          /\ drift => u = RandomResolution - 1
          /\ selection' = <<[currentCommandIndex |-> Null, at |-> now,
                          result |-> selectNextCommand(TRUE,
                                          <<commandWithState(KeyNames[1], cmd)>>,
                                          Null, now, u, drift)]>>
    /\ commands' = <<commandWithState(KeyNames[1], cmd)>>
    /\ commandsIsArray' = TRUE
    /\ UNCHANGED timerVars
    /\ UNCHANGED scorerVars
    /\ UNCHANGED controllerVars
    /\ UNCHANGED <<now, cmd, hist, incorrectCalls, review, weighing>>

\* commandsSinceLastSeen below and at the first interval
DueCounts == {0, 3}

NextDue ==
    \/ AdvanceClock
    \/ \E isCorrect \in BOOLEAN : Train(isCorrect)
    \/ \E count \in DueCounts : ShouldReview(count)
    \/ SelectTrained

\* one command, from initializeCommandState, trained, asked about and queued
SpecDue == InitSRS /\ [][NextDue]_vars

(***************************************************************************)
(* State machine of the controller (src/index.js, GameController): the     *)
(* pack's commands are presented one after the other.                      *)
(*                                                                         *)
(* game.commandStats is progress.commandStats, one state per command of    *)
(* the pack (the object is shared by every copy of progress and changed in *)
(* place).  game.currentCommand is the record selectNextCommand returned,  *)
(* with the state the command had then.  A function component's handlers   *)
(* read the state of the render that made them: the timer made by          *)
(* selectNext calls the handleAnswer of the render in which the previous   *)
(* answer was handled, whose currentCommand is game.staleCommand (null for *)
(* the timer made on mount).  game.countdown says the timer of the         *)
(* presented command runs, game.awaiting that a selectNext call is pending *)
(* (on mount, or behind the feedback delay).  The session's score, the     *)
(* feedback shown and the saved copy of progress are not read by the       *)
(* selection and are left out; the answer keys are not typed again during  *)
(* the feedback delay.                                                     *)
(***************************************************************************)
\* commands.map(cmd => ({ ...cmd, ...currentProgress.commandStats[cmd.keys] }))
commandsWithState(commandStats) ==
    [i \in 1..Len(commandStats) |-> commandWithState(KeyNames[i], commandStats[i])]

\* mounted on a new profile: every command of the pack gets initializeCommandState
InitGame ==
    /\ now = ClockStart
    /\ cmd = initializeCommandState(now)
    /\ hist = <<>>
    /\ incorrectCalls = 0
    /\ review = <<>>
    /\ commands = NoCommands
    /\ commandsIsArray = TRUE
    /\ selection = <<>>
    /\ weighing = <<>>
    /\ NoTimer
    /\ NoScorer
    /\ game = [commandStats |-> [i \in 1..PackSize |-> initializeCommandState(now)],
               currentCommand |-> <<>>, staleCommand |-> <<>>,
               countdown |-> FALSE, awaiting |-> TRUE, handled |-> 0]
    /\ shown = <<>>

\* some command other than the one on screen is due now
Alternatives ==
    \E i \in 1..Len(game.commandStats) :
        /\ game.currentCommand # <<>> => game.currentCommand[1].originalIndex # i - 1
        /\ IsDueAt(commandsWithState(game.commandStats)[i], now)

\* selectNext(progress, allCommands): selectNextCommand(commandsWithState, 0),
\* and when it returns a command, that command is presented and its timer started
GameSelectNext ==
    /\ game.awaiting
    /\ \E u \in 0..(RandomResolution - 1), drift \in BOOLEAN :
          /\ drift => u = RandomResolution - 1
          /\ LET next == selectNextCommand(TRUE, commandsWithState(game.commandStats),
                                           0, now, u, drift)
             IN  IF next.kind = "command"
                 THEN /\ game' = [game EXCEPT
                             !.currentCommand =
                                 <<[originalIndex |-> next.command.originalIndex,
                                    state |-> game.commandStats[
                                                  next.command.originalIndex + 1]]>>,
                             !.countdown = TRUE,
                             !.awaiting = FALSE]
                      /\ shown' = LastEvents(Append(shown,
                                      [originalIndex |-> next.command.originalIndex,
                                       at |-> now,
                                       alternatives |-> Alternatives]))
                 ELSE /\ game' = [game EXCEPT !.awaiting = FALSE]
                      /\ shown' = shown
    /\ UNCHANGED <<trainingVars, timerVars, scorerVars>>

\* useInput: the keys of the command on screen were typed, handleAnswer(true)
HandleAnswer ==
    /\ game.currentCommand # <<>>
    /\ ~game.awaiting
    /\ game.handled < MaxAnswers
    /\ LET current == game.currentCommand[1]
       IN  game' = [game EXCEPT
                       !.commandStats[current.originalIndex + 1] =
                           updateCommandState(current.state, TRUE, now),
                       !.staleCommand = game.currentCommand,
                       !.countdown = FALSE,
                       !.awaiting = TRUE,
                       !.handled = @ + 1]
    /\ UNCHANGED <<trainingVars, timerVars, scorerVars, shown>>

\* the timer of the command on screen expires: handleTimeout(), which is
\* handleAnswer(false) with the currentCommand of the timer's closure
HandleTimeout ==
    /\ game.countdown
    /\ ~game.awaiting
    /\ game.handled < MaxAnswers
    /\ shown # <<>> /\ now > shown[Len(shown)].at
    /\ IF game.staleCommand = <<>>
       THEN game' = [game EXCEPT !.countdown = FALSE]
       ELSE LET current == game.staleCommand[1]
            IN  game' = [game EXCEPT
                            !.commandStats[current.originalIndex + 1] =
                                updateCommandState(current.state, FALSE, now),
                            !.countdown = FALSE,
                            !.awaiting = TRUE,
                            !.handled = @ + 1]
    /\ UNCHANGED <<trainingVars, timerVars, scorerVars, shown>>

NextGame ==
    \/ AdvanceClock
    \/ GameSelectNext
    \/ HandleAnswer
    \/ HandleTimeout

\* one game on a new profile
SpecGame == InitGame /\ [][NextGame]_vars

(***************************************************************************)
(* State machine of the scorer: calculateScore is applied to any numbers,  *)
(* and a session records attempts in a SessionScorer.                      *)
(***************************************************************************)
\* timeRemaining and maxTime in ms: negative, zero, inside and outside the range
ScoreTimes == {-1000, 0, 1000, 2000}
ScoreMaxTimes == {-2000, 0, 1500, 2000}
ScoreLevels == -1..7
ScoreCombos == -1..MaxCombo

\* nothing has been scored yet
InitScore ==
    /\ InitSRS
    /\ NoScorer

\* scoring = calculateScore(timeRemaining, maxTime, level, combo)
CalculateScore(timeRemaining, maxTime, level, combo) ==
    /\ scoring' = <<[timeRemaining |-> timeRemaining, maxTime |-> maxTime,
                     level |-> level, combo |-> combo,
                     result |-> calculateScore(timeRemaining, maxTime, level, combo)]>>
    /\ UNCHANGED <<trainingVars, timerVars, controllerVars, scorer, attempt, history, stats>>

NextScore ==
    \E timeRemaining \in ScoreTimes, maxTime \in ScoreMaxTimes,
       level \in ScoreLevels, combo \in ScoreCombos :
        CalculateScore(timeRemaining, maxTime, level, combo)

\* calculateScore applied to any numbers
SpecScore == InitScore /\ [][NextScore]_vars

\* the attempts of a session, <<timeRemaining, maxTime, level>> with times in
\* ms: the full bonus at the top level, no bonus at level 0, all out of range
AttemptArguments == {<<2000, 2000, 5>>, <<0, 2000, 0>>, <<-1000, 0, 7>>}

\* scorer.recordAttempt(isCorrect, timeRemaining, maxTime, level)
RecordAttempt(isCorrect, timeRemaining, maxTime, level) ==
    /\ scorer.correctCount + scorer.incorrectCount < MaxAttempts
    /\ LET call == recordAttempt(scorer, isCorrect, timeRemaining, maxTime, level)
       IN  /\ scorer' = call.this
           /\ attempt' = <<[pre |-> scorer, isCorrect |-> isCorrect,
                            timeRemaining |-> timeRemaining, maxTime |-> maxTime,
                            level |-> level, result |-> call.result]>>
    /\ history' = Append(history, isCorrect)
    /\ stats' = <<>>
    /\ UNCHANGED <<trainingVars, timerVars, controllerVars, scoring>>

\* scorer.getStats()
GetStats ==
    /\ stats = <<>>
    /\ stats' = <<getStats(scorer)>>
    /\ UNCHANGED <<trainingVars, timerVars, controllerVars, scorer, attempt, scoring, history>>

\* scorer.reset()
Reset ==
    /\ history # <<>>
    /\ scorer' = reset(scorer)
    /\ attempt' = <<>>
    /\ history' = <<>>
    /\ stats' = <<>>
    /\ UNCHANGED <<trainingVars, timerVars, controllerVars, scoring>>

NextSession ==
    \/ \E isCorrect \in BOOLEAN, arguments \in AttemptArguments :
          RecordAttempt(isCorrect, arguments[1], arguments[2], arguments[3])
    \/ GetStats
    \/ Reset

\* sessions of one scorer, from new SessionScorer()
SpecSession == InitScore /\ [][NextSession]_vars

(***************************************************************************)
(* Claims about the SRS engine                                             *)
(***************************************************************************)
Called == hist # <<>>
Last == hist[Len(hist)]

\* the command states of the data model: every field a number, level 0..5
IsNumericState(c) ==
    /\ c.level \in 0..MAX_LEVEL
    /\ c.successes \in Nat
    /\ c.failures \in Nat

\* the last n updateCommandState calls were all correct
LastCorrect(n) ==
    /\ Len(hist) >= n
    /\ \A i \in (Len(hist) - n + 1)..Len(hist) : hist[i].isCorrect

\* the state the n-th last call started from
StartOf(n) == hist[Len(hist) - n + 1].pre

\* C1: an incorrect updateCommandState on any command state (any level 0..5,
\* any successes, any failures) yields level 0, successes 0 and failures + 1.
C1_FailureReset ==
    (Called /\ ~Last.isCorrect /\ IsNumericState(Last.pre))
        => /\ cmd.level = 0
           /\ cmd.successes = 0
           /\ cmd.failures = Last.pre.failures + 1

C1_Witness ==
    /\ Called /\ ~Last.isCorrect
    /\ Last.pre.level = 5 /\ Last.pre.successes = 2 /\ Last.pre.failures = 1
    /\ cmd.level = 0

\* C2: from successes = 0 and level < 5, the first and second consecutive
\* correct calls leave the level unchanged with successes 1 and 2, and the
\* third advances the level by exactly 1 and leaves successes 0.
C2_ThreeStrikes ==
    \A n \in 1..3 :
        (/\ LastCorrect(n)
         /\ StartOf(n).successes = 0
         /\ StartOf(n).level \in 0..4)
            => IF n = 3
               THEN cmd.level = StartOf(n).level + 1 /\ cmd.successes = 0
               ELSE cmd.level = StartOf(n).level /\ cmd.successes = n

C2_Witness ==
    /\ LastCorrect(3)
    /\ StartOf(3).successes = 0 /\ StartOf(3).level = 4
    /\ StartOf(2).successes = 1 /\ StartOf(2).level = 4
    /\ StartOf(1).successes = 2 /\ StartOf(1).level = 4
    /\ cmd.level = 5 /\ cmd.successes = 0

\* C3: from initializeCommandState, after any sequence of transitions the
\* level is within 0..5, and a success at level 5 leaves the level at 5.
C3_LevelBounds ==
    /\ cmd.level \in 0..5
    /\ (Called /\ Last.isCorrect /\ Last.pre.level = 5) => cmd.level = 5

C3_Witness ==
    /\ LastCorrect(2)
    /\ StartOf(2).level = 5 /\ StartOf(2).successes = 2
    /\ cmd.level = 5 /\ cmd.successes = 4

\* C4: whenever a transition changes the level, the resulting successes is 0.
C4_ResetOnLevelChange ==
    (Called /\ Last.pre.level \in 0..MAX_LEVEL /\ cmd.level # Last.pre.level)
        => cmd.successes = 0

C4_Witness ==
    /\ Called /\ ~Last.isCorrect
    /\ Last.pre.level = 3 /\ Last.pre.successes = 2
    /\ cmd.level = 0 /\ cmd.successes = 0

\* C5: failures never decreases: a correct transition leaves it unchanged,
\* an incorrect one adds exactly 1, and from initializeCommandState it equals
\* the number of incorrect transitions so far.
C5_FailuresCount ==
    /\ cmd.failures = incorrectCalls
    /\ Called => cmd.failures =
                    Last.pre.failures + (IF Last.isCorrect THEN 0 ELSE 1)

C5_Witness ==
    /\ Called /\ Last.isCorrect
    /\ incorrectCalls = 2 /\ cmd.failures = 2 /\ cmd.level = 1

\* C6: every transition sets lastSeen to the call's time and nextReview from
\* the level AFTER the transition: the call's time at level 0 and the call's
\* time + [0,3,10,25,50,100][level] * 2500 ms at levels 1..5.
C6_NextReview ==
    Called
        => /\ cmd.lastSeen = Last.at
           /\ cmd.nextReview =
                 IF cmd.level = 0
                 THEN Last.at
                 ELSE Last.at + <<0, 3, 10, 25, 50, 100>>[cmd.level + 1] * 2500
           /\ (cmd.nextReview > cmd.lastSeen) <=> (cmd.level >= 1)

C6_Witness ==
    /\ Called /\ Last.isCorrect /\ Last.at > ClockStart
    /\ Last.pre.level = 1 /\ cmd.level = 2
    /\ cmd.nextReview = Last.at + 25000

\* C7: shouldReviewCommand is true for every level-0 state; for level 1..5 it
\* is true exactly when the count reaches the level's interval or nextReview
\* is set and now >= nextReview, and false otherwise.
C7_ReviewDue ==
    review # <<>> =>
        LET r == review[1]
            due == \/ r.count >= <<0, 3, 10, 25, 50, 100>>[cmd.level + 1]
                   \/ (cmd.nextReview \notin {Undefined, Null} /\ r.at >= cmd.nextReview)
        IN  /\ cmd.level = 0 => r.result = "true"
            /\ cmd.level \in 1..5 => r.result = (IF due THEN "true" ELSE "false")

\* what does hold of the code: the value returned is truthy exactly when due
C7_ReviewDueTruthy ==
    review # <<>> =>
        LET r == review[1]
            due == \/ r.count >= <<0, 3, 10, 25, 50, 100>>[cmd.level + 1]
                   \/ (cmd.nextReview \notin {Undefined, Null} /\ r.at >= cmd.nextReview)
        IN  /\ cmd.level = 0 => r.result = "true"
            /\ cmd.level \in 1..5 => ((r.result = "true") <=> due)

(***************************************************************************)
(* Claims about the queue                                                  *)
(***************************************************************************)
Selecting == selection # <<>>
Sel == selection[1]

\* commands[i] is due at the time of the last call: nextReview unset or <= now
DueInCall(i) ==
    \/ commands[i].nextReview \in {Undefined, Null}
    \/ commands[i].nextReview <= Sel.at

\* the 0-based index of commands[i] is the call's currentCommandIndex
IsCurrent(i) == Sel.currentCommandIndex = i - 1

SoleDue(i) == DueInCall(i) /\ \A j \in 1..Len(commands) : j # i => ~DueInCall(j)

\* C8: selectNextCommand never returns a command whose nextReview is after
\* now; a command whose nextReview is undefined, null or <= now is eligible:
\* it keeps the call from returning null, and it is returned when it is the
\* only such command.
C8_DueFiltering ==
    Selecting =>
        /\ Sel.result.kind = "command" =>
              /\ Sel.result.command.originalIndex + 1 \in 1..Len(commands)
              /\ DueInCall(Sel.result.command.originalIndex + 1)
              /\ Sel.result.command.nextReview =
                    commands[Sel.result.command.originalIndex + 1].nextReview
        /\ Sel.result.kind = "null" => \A i \in 1..Len(commands) : ~DueInCall(i)
        /\ \A i \in 1..Len(commands) :
              (SoleDue(i) /\ IsNumber(commands[i].level))
                  => /\ Sel.result.kind = "command"
                     /\ Sel.result.command.originalIndex = i - 1

C8_Witness ==
    /\ Selecting /\ Sel.result.kind = "command"
    /\ Len(commands) = 3
    /\ Sel.result.command.nextReview = Undefined /\ Sel.result.command.level = 5
    /\ \E i, j \in 1..Len(commands) :
          /\ commands[i].nextReview > Sel.at /\ commands[i].level = 0
          /\ commands[j].nextReview = Null /\ commands[j].level = 5
          /\ Sel.result.command.originalIndex \notin {i - 1, j - 1}

\* C9 as claimed: with at least one due level-0 command in the list, no
\* command of another level is returned, whatever currentCommandIndex is.
C9_Level0Priority ==
    (Selecting /\ \E i \in 1..Len(commands) : DueInCall(i) /\ commands[i].level = 0)
        => (Sel.result.kind = "command" => Sel.result.command.level = 0)

\* C9 amended: with at least one due level-0 command left after the current
\* command is excluded (or the current, level-0 command is the only due one),
\* no command of another level is returned.
C9_Level0PriorityInPool ==
    (Selecting /\ \E i \in 1..Len(commands) :
                    /\ DueInCall(i) /\ commands[i].level = 0
                    /\ (~IsCurrent(i) \/ SoleDue(i)))
        => (Sel.result.kind = "command" => Sel.result.command.level = 0)

C9_Witness ==
    /\ Selecting /\ Sel.result.kind = "command"
    /\ Len(commands) = 3
    /\ \E i, j, k \in 1..Len(commands) :
          /\ IsCurrent(i) /\ DueInCall(i) /\ commands[i].level = 0
          /\ j # i /\ DueInCall(j) /\ commands[j].level = 0
          /\ DueInCall(k) /\ commands[k].level = 1
          /\ Sel.result.command.originalIndex = j - 1

\* C10: the command at currentCommandIndex is never returned when another
\* command is due; it is returned only as the sole due command.
C10_NoImmediateRepeat ==
    (Selecting /\ Sel.result.kind = "command"
               /\ Sel.result.command.originalIndex = Sel.currentCommandIndex)
        => SoleDue(Sel.currentCommandIndex + 1)

C10_Witness ==
    /\ Selecting /\ Sel.result.kind = "command"
    /\ Len(commands) = 3
    /\ Sel.currentCommandIndex = 1
    /\ Sel.result.command.originalIndex = 1
    /\ commands[1].nextReview > Sel.at
    /\ commands[3].nextReview > Sel.at

\* C11: selectNextCommand returns null exactly when the list is empty or no
\* command is due; with at least one due command, all due commands having a
\* numeric level, it returns one of the due commands, never undefined.
C11_NullOnlyWhenNothingDue ==
    (Selecting /\ commandsIsArray) =>
        /\ (Sel.result.kind = "null")
              <=> (Len(commands) = 0 \/ \A i \in 1..Len(commands) : ~DueInCall(i))
        /\ (/\ \E i \in 1..Len(commands) : DueInCall(i)
            /\ \A i \in 1..Len(commands) : DueInCall(i) => IsNumber(commands[i].level))
              => /\ Sel.result.kind = "command"
                 /\ \E i \in 1..Len(commands) :
                       /\ DueInCall(i)
                       /\ Sel.result.command.originalIndex = i - 1
                       /\ Sel.result.command.keys = commands[i].keys
                       /\ Sel.result.command.level = commands[i].level

C11_Witness ==
    /\ Selecting /\ Sel.result.kind = "command"
    /\ Len(commands) = 3
    /\ \A i \in 1..3 : DueInCall(i) /\ commands[i].level \in {1, 5}
    /\ Sel.currentCommandIndex = Null
    /\ Sel.result.command.originalIndex = 2
    /\ Sel.result.command.level = 5

Weighed == weighing # <<>>
MissingLevel(i) == commands[i].level \in {Undefined, Null}

\* C12: getCommandWeights and selectNextCommand both throw a TypeError on a
\* non-array, and a TypeError naming the offending key whenever any command
\* of the list lacks a numeric level.
C12_FailFast ==
    /\ Weighed =>
          /\ ~commandsIsArray => weighing[1].kind = "TypeError"
          /\ (\E i \in 1..Len(commands) : MissingLevel(i))
                => /\ weighing[1].kind = "TypeError"
                   /\ \E i \in 1..Len(commands) :
                         MissingLevel(i) /\ weighing[1].message = commands[i].keys
    /\ Selecting =>
          /\ ~commandsIsArray => Sel.result.kind = "TypeError"
          /\ (\E i \in 1..Len(commands) : MissingLevel(i))
                => /\ Sel.result.kind = "TypeError"
                   /\ \E i \in 1..Len(commands) :
                         MissingLevel(i) /\ Sel.result.message = commands[i].keys

\* what does hold of getCommandWeights alone
C12_WeightsFailFast ==
    Weighed =>
        /\ ~commandsIsArray => weighing[1].kind = "TypeError"
        /\ (\E i \in 1..Len(commands) : MissingLevel(i))
              => /\ weighing[1].kind = "TypeError"
                 /\ \E i \in 1..Len(commands) :
                       MissingLevel(i) /\ weighing[1].message = commands[i].keys

\* C13: getCommandWeights returns one weight per command, in input order,
\* equal to 1/(level+1): 1, 1/2, 1/3, 1/4, 1/5, 1/6 for levels 0..5 (in
\* units of 1/60: 60, 30, 20, 15, 12, 10), strictly decreasing in the level.
C13_Weights ==
    (Weighed /\ commandsIsArray /\ \A i \in 1..Len(commands) : ~MissingLevel(i)) =>
        /\ weighing[1].kind = "weights"
        /\ Len(weighing[1].weights) = Len(commands)
        /\ \A i \in 1..Len(commands) :
              /\ weighing[1].weights[i] * (commands[i].level + 1) = 60
              /\ weighing[1].weights[i] =
                    <<60, 30, 20, 15, 12, 10>>[commands[i].level + 1]
        /\ \A i, j \in 1..Len(commands) :
              commands[i].level < commands[j].level
                  => weighing[1].weights[i] > weighing[1].weights[j]

C13_Witness ==
    /\ Weighed /\ Len(commands) = 3
    /\ commands[1].level = 4 /\ commands[2].level = 0 /\ commands[3].level = 2
    /\ weighing[1].kind = "weights"
    /\ weighing[1].weights = <<12, 60, 20>>

(***************************************************************************)
(* Claims about the timer                                                  *)
(***************************************************************************)
Event(i) == events[i]
EventIndexes == 1..Len(events)
IsCallback(e) == e.name \in {"onTick", "onComplete"}

\* the caller called start() somewhere strictly between events i and j
StartedBetween(i, j) == \E k \in (i + 1)..(j - 1) : Event(k).name = "start"

\* C14: after stop() was called inside an onTick callback (on any tick, the
\* expiring one included), neither onTick nor onComplete is invoked again.
C14_StopInTickSilences ==
    \A i, j \in EventIndexes :
        (/\ i < j
         /\ Event(i).name = "onTick" /\ Event(i).calls = "stop"
         /\ ~StartedBetween(i, j))
            => ~IsCallback(Event(j))

\* C15: once stop() has been called, or the timer has expired, a later
\* start() begins no countdown: isActive() stays false, no tick is scheduled
\* and no callback fires.
C15_StopIsPermanent ==
    \A i, j \in EventIndexes :
        (/\ i < j
         /\ \/ Event(i).name = "stop"
            \/ Event(i).name = "onComplete"
            \/ Event(i).calls = "stop"
         /\ Event(j).name = "start")
            => /\ ~isActive(timer)
               /\ intervals = {}
               /\ \A k \in (j + 1)..Len(events) : ~IsCallback(Event(k))

\* C16: after stop() has been called, every later getRemaining() returns 0,
\* whatever stop(), pause() and addTime(delta) calls happen in between.
C16_StoppedReportsZero ==
    \A i \in EventIndexes :
        (/\ Event(i).name = "stop"
         /\ \A k \in (i + 1)..Len(events) :
               Event(k).name \in {"stop", "pause", "addTime", "getRemaining"})
            => /\ getRemaining(World, now).timer.remainingTime = 0
               /\ \A j \in (i + 1)..Len(events) :
                     Event(j).name = "getRemaining" => Event(j).value = 0

\* C17: within one countdown onComplete is invoked at most once, whatever
\* ticks, clock advances, getRemaining(), pause()/start() cycles, repeated
\* start() and addTime() calls happen; it is invoked exactly once when a tick
\* finds the remaining time at zero.
C17_CompleteOnce ==
    /\ completions <= 1
    /\ \A i \in EventIndexes :
          (/\ Event(i).name = "onTick" /\ Event(i).value = 0
           /\ timer.onComplete # "none"
           /\ ~StartedBetween(i, Len(events) + 1))
              => completions = 1

C17_Witness ==
    /\ completions = 1
    /\ Len(events) = 2
    /\ Event(1).name = "onTick" /\ Event(1).value = 0
    /\ Event(2).name = "onComplete"
    /\ timer.timeLimit = 10000
    /\ timer.elapsedBeforePause > 0
    /\ ~timer.isRunning

\* C18: on the tick on which the countdown expires onTick, with remaining 0,
\* is invoked before onComplete, and no onTick follows the onComplete of the
\* same countdown.
C18_TickBeforeComplete ==
    \A i \in EventIndexes :
        Event(i).name = "onComplete"
            => /\ (timer.onTick # "none" /\ (i >= 2 \/ Len(events) < MaxEvents))
                    => /\ i >= 2
                       /\ Event(i - 1).name = "onTick"
                       /\ Event(i - 1).value = 0
               /\ \A j \in (i + 1)..Len(events) :
                     Event(j).name = "onTick" => StartedBetween(i, j)

C18_Witness ==
    /\ Len(events) = 2
    /\ Event(1).name = "onTick" /\ Event(1).value = 0 /\ Event(1).calls = "pause"
    /\ Event(2).name = "onComplete"
    /\ timer.startTime < now
    /\ ~timer.isRunning

\* C19: after any sequence of start(), pause() and stop() calls, repeated or
\* made from inside callbacks, at most one interval is scheduled, it is the
\* timer's own, and one is scheduled if and only if isActive() is true.
C19_OneInterval ==
    /\ Cardinality(intervals) <= 1
    /\ (intervals # {}) <=> isActive(timer)
    /\ intervals = IF isActive(timer) THEN {timer.intervalId} ELSE {}
    /\ ~isActive(timer) => timer.intervalId = Null

C19_Witness ==
    /\ events = << [name |-> "start", value |-> Undefined, calls |-> ""],
                   [name |-> "start", value |-> Undefined, calls |-> ""] >>
    /\ isActive(timer)
    /\ timer.elapsedBeforePause > 0
    /\ intervals = {timer.intervalId}

\* C20: for a timer created with a non-negative duration, neither
\* getRemaining() nor the value handed to onTick is ever negative: before
\* start, running, paused, expired, stopped, or after a large negative addTime.
C20_NonNegative ==
    /\ getRemaining(World, now).timer.remainingTime >= 0
    /\ \A i \in EventIndexes :
          Event(i).name \in {"getRemaining", "onTick"} => Event(i).value >= 0

C20_Witness ==
    /\ Len(events) = 2
    /\ Event(1).name = "addTime" /\ Event(1).value = -20000
    /\ Event(2).name = "getRemaining" /\ Event(2).value = 0
    /\ timer.timeLimit < 0
    /\ isActive(timer)
    /\ timer.startTime < now

\* what getRemaining() returns when called now
Remaining == getRemaining(World, now).timer.remainingTime
LastEvent == events[Len(events)]

\* C21: when getRemaining() is read on a running timer and pause() is called
\* right afterwards, every getRemaining() while the timer stays paused returns
\* the value read, however far the clock advances, unless addTime() is called.
C21_PauseFreezes ==
    [][/\ (/\ isActive(timer) /\ events # <<>>
           /\ LastEvent.name = "getRemaining" /\ LastEvent.value = Remaining
           /\ Pause)
          => (isPausedState(timer') /\ Remaining' = LastEvent.value)
       /\ (isPausedState(timer) /\ (AdvanceClock \/ GetRemaining \/ Pause))
          => (isPausedState(timer') /\ Remaining' = Remaining)]_vars

C21_Witness ==
    /\ isPausedState(timer)
    /\ now = timer.pausedAt + 2 * ClockStep
    /\ events = << [name |-> "getRemaining", value |-> 10000, calls |-> ""],
                   [name |-> "getRemaining", value |-> 10000, calls |-> ""] >>
    /\ timer.timeLimit = 10000
    /\ timer.elapsedBeforePause = 0

\* C22: time spent paused is not counted: after any number of pause()/start()
\* cycles getRemaining() on the running timer is max(0, total duration - time
\* spent running), and a resume never restarts from the full duration.
C22_PausedTimeNotCounted ==
    isActive(timer) => Remaining = Max(0, timer.timeLimit - ranFor)

C22_Witness ==
    /\ isActive(timer)
    /\ timer.timeLimit = 10000
    /\ timer.pausedAt = ClockStart + ClockStep
    /\ timer.startTime = ClockStart + 2 * ClockStep
    /\ now = ClockStart + 2 * ClockStep
    /\ ranFor = ClockStep
    /\ LastEvent.name = "getRemaining" /\ LastEvent.value = 10000 - ClockStep

\* C23: isPaused() is true exactly when pause() was called on the running
\* timer and neither start() nor stop() has been called since; pause() on a
\* never-started or stopped timer leaves it false; isPaused() and isActive()
\* are never both true.
C23_PausedExactly ==
    /\ [](~(isPausedState(timer) /\ isActive(timer)))
    /\ [][/\ (Pause /\ timer.isRunning) => isPausedState(timer')
          /\ (Pause /\ ~timer.isRunning) => ~isPausedState(timer')
          /\ Stop => ~isPausedState(timer')
          /\ Start => (isPausedState(timer') => LastEvent'.calls = "pause")
          /\ TickFires =>
                (isPausedState(timer') <=> (timer.onTick = "pause" /\ Remaining > 0))
          /\ (AdvanceClock \/ GetRemaining \/ \E seconds \in TimeDeltas : AddTime(seconds))
                => (isPausedState(timer') <=> isPausedState(timer))]_vars

C23_Witness ==
    /\ events = << [name |-> "stop", value |-> Undefined, calls |-> ""],
                   [name |-> "pause", value |-> Undefined, calls |-> ""] >>
    /\ timer.pausedAt = ClockStart
    /\ now > ClockStart
    /\ ~isPausedState(timer)
    /\ ~isActive(timer)

\* C24: when onComplete is invoked the timer is already stopped: isActive()
\* and isPaused() are false, getRemaining() is 0 and no interval is scheduled;
\* a stop() afterwards changes nothing.
C24_StoppedAtComplete ==
    /\ atComplete # <<>>
          => atComplete[1] = [isActive |-> FALSE, isPaused |-> FALSE,
                              remaining |-> 0, scheduled |-> 0]
    /\ (events # <<>> /\ LastEvent.name = "onComplete")
          => /\ stop(World) = World
             /\ Observed(World) = atComplete[1]
             /\ Remaining = 0

C24_Witness ==
    /\ atComplete # <<>>
    /\ Len(events) = 2
    /\ Event(1).name = "onTick" /\ Event(1).calls = "pause"
    /\ Event(2).name = "onComplete" /\ Event(2).calls = "stop"
    /\ timer.pausedAt > ClockStart

\* running, paused or never started
NotStopped == timer.isRunning \/ timer.startTime = Null

\* C25: in any non-stopped state, getRemaining() read right after
\* addTime(delta) equals max(0, getRemaining() read right before + delta).
C25_AddTimeShifts ==
    [][\A seconds \in TimeDeltas :
          (NotStopped /\ AddTime(seconds))
              => Remaining' = Max(0, Remaining + seconds)]_vars

\* the time a running timer has run past its total duration (0 if none)
Overdue ==
    IF isActive(timer)
    THEN Max(0, (now - timer.startTime) + timer.elapsedBeforePause - timer.timeLimit)
    ELSE 0

\* what does hold: the shift is exact unless the running timer is overdue
C25_AddTimeShiftsInTime ==
    [][\A seconds \in TimeDeltas :
          (NotStopped /\ AddTime(seconds))
              => Remaining' = Max(0, Remaining - Overdue + seconds)]_vars

\* the last clock time explored
Horizon == ClockStart + MaxAdvances * ClockStep

\* C26: a timer that is started and never paused, stopped or extended
\* eventually invokes onComplete and becomes inactive, given that the clock
\* keeps advancing and scheduled ticks keep firing (for every countdown that
\* ends within the clock times explored).
C26_EventuallyCompletes ==
    (isActive(timer) /\ timer.startTime + timer.timeLimit <= Horizon)
        ~> (/\ ~isActive(timer)
            /\ timer.onComplete # "none" => (completions = 1 /\ atComplete # <<>>))

C26_Witness ==
    /\ ~isActive(timer)
    /\ completions = 1
    /\ timer.timeLimit = 10000
    /\ now = Horizon
    /\ ranFor >= 10000
    /\ LastEvent.name = "onComplete"

(***************************************************************************)
(* Claims about the scorer                                                 *)
(***************************************************************************)
\* the last calculateScore call
Scored == scoring[1]

\* the last calculateScore call had in-range arguments
InRange ==
    /\ scoring # <<>>
    /\ Scored.maxTime > 0
    /\ 0 <= Scored.timeRemaining /\ Scored.timeRemaining <= Scored.maxTime
    /\ Scored.level \in 0..5
    /\ Scored.combo >= 0

\* floor((100 + 50 * timeRemaining / maxTime) * (level + 1) * (floor(combo / 5) + 1))
Formula(timeRemaining, maxTime, level, combo) ==
    ((100 * maxTime + 50 * timeRemaining) * (level + 1) * ((combo \div 5) + 1))
        \div maxTime

\* C27: for in-range arguments calculateScore returns
\* floor((100 + 50*timeRemaining/maxTime) * (level+1) * (floor(combo/5)+1)),
\* and calculateScore(2,2,3,12) = 1800, calculateScore(1,2,5,7) = 1500,
\* calculateScore(0,2,0,0) = 100.
C27_ScoreFormula ==
    /\ InRange =>
         Scored.result = Formula(Scored.timeRemaining, Scored.maxTime,
                                 Scored.level, Scored.combo)
    /\ calculateScore(2000, 2000, 3, 12) = 1800
    /\ calculateScore(1000, 2000, 5, 7) = 1500
    /\ calculateScore(0, 2000, 0, 0) = 100

\* What does hold: the three examples, and the formula whenever
\* timeRemaining / maxTime is a binary fraction; for timeRemaining / maxTime
\* = 2/3 the result is the formula's, or one less when 3 divides
\* (level+1) * (floor(combo/5)+1).
C27_ScoreFormulaOnBinaryFractions ==
    /\ InRange =>
         LET exact == Formula(Scored.timeRemaining, Scored.maxTime,
                              Scored.level, Scored.combo)
         IN  /\ 3 * Scored.timeRemaining # 2 * Scored.maxTime
                  => Scored.result = exact
             /\ Scored.result \in {exact - 1, exact}
    /\ calculateScore(2000, 2000, 3, 12) = 1800
    /\ calculateScore(1000, 2000, 5, 7) = 1500
    /\ calculateScore(0, 2000, 0, 0) = 100

\* C28: calculateScore treats out-of-range arguments as clamped: its result
\* is its result for (max(timeRemaining,0), maxTime if maxTime > 0 else 1,
\* min(max(level,0),5), max(combo,0)), and is a non-negative integer.
C28_ClampedArguments ==
    scoring # <<>> =>
        LET timeRemaining == Max(Scored.timeRemaining, 0)
            maxTime == IF Scored.maxTime > 0 THEN Scored.maxTime ELSE 1000
            level == IF Max(Scored.level, 0) < 5 THEN Max(Scored.level, 0) ELSE 5
            combo == Max(Scored.combo, 0)
        IN  /\ Scored.result = calculateScore(timeRemaining, maxTime, level, combo)
            /\ Scored.result \in Nat

\* every argument out of range at once: scored as (0, 1, 5, 0)
C28_Witness ==
    /\ scoring # <<>>
    /\ Scored.timeRemaining < 0
    /\ Scored.maxTime <= 0
    /\ Scored.level > 5
    /\ Scored.combo < 0
    /\ Scored.result = 600

\* the last recordAttempt call
Attempted == attempt[1]

\* C29: a correct attempt is awarded calculateScore with the combo after
\* its increment for this attempt, so the 5th consecutive correct attempt
\* has multiplier 2 and the 10th has 3; the returned score is the amount
\* added to totalScore.
C29_ScoredWithNewCombo ==
    (attempt # <<>> /\ Attempted.isCorrect) =>
        LET streak == Attempted.pre.currentCombo + 1
            single == calculateScore(Attempted.timeRemaining, Attempted.maxTime,
                                     Attempted.level, 0)
        IN  /\ scorer.currentCombo = streak
            /\ Attempted.result.combo = streak
            /\ Attempted.result.score =
                  calculateScore(Attempted.timeRemaining, Attempted.maxTime,
                                 Attempted.level, streak)
            /\ streak \in 1..4 => Attempted.result.score = single
            /\ streak \in 5..9 => Attempted.result.score = 2 * single
            /\ streak \in 10..14 => Attempted.result.score = 3 * single
            /\ scorer.totalScore = Attempted.pre.totalScore + Attempted.result.score
            /\ Attempted.result.totalScore = scorer.totalScore

\* the 5th consecutive correct attempt, full time at level 5: 150 * 6 * 2
C29_Witness ==
    /\ attempt # <<>>
    /\ Attempted.isCorrect
    /\ Attempted.pre.currentCombo = 4
    /\ Attempted.pre.incorrectCount > 0
    /\ Attempted.timeRemaining = 2000 /\ Attempted.maxTime = 2000
    /\ Attempted.level = 5
    /\ Attempted.result.score = 1800
    /\ scorer.totalScore = Attempted.pre.totalScore + 1800

\* C30: a failed attempt, whatever the streak and the arguments, sets
\* currentCombo to 0, returns score 0, adds 1 to incorrectCount and leaves
\* totalScore, bestCombo and correctCount as they were.
C30_FailureResets ==
    (attempt # <<>> /\ ~Attempted.isCorrect) =>
        /\ scorer.currentCombo = 0
        /\ Attempted.result.score = 0
        /\ Attempted.result.combo = 0
        /\ scorer.incorrectCount = Attempted.pre.incorrectCount + 1
        /\ scorer.totalScore = Attempted.pre.totalScore
        /\ Attempted.result.totalScore = Attempted.pre.totalScore
        /\ scorer.bestCombo = Attempted.pre.bestCombo
        /\ scorer.correctCount = Attempted.pre.correctCount

\* a failure after a streak of 6 that had earned points, with out-of-range arguments
C30_Witness ==
    /\ attempt # <<>>
    /\ ~Attempted.isCorrect
    /\ Attempted.pre.currentCombo = 6
    /\ Attempted.pre.totalScore > 0
    /\ Attempted.timeRemaining < 0 /\ Attempted.maxTime <= 0 /\ Attempted.level > 5
    /\ scorer.currentCombo = 0
    /\ scorer.bestCombo = 6
    /\ scorer.totalScore = Attempted.pre.totalScore

\* the number of TRUE entries at the end of h
RECURSIVE TrailingCorrect(_)
TrailingCorrect(h) ==
    IF h = <<>> \/ ~h[Len(h)]
    THEN 0
    ELSE 1 + TrailingCorrect(SubSeq(h, 1, Len(h) - 1))

\* the longest run of TRUE entries anywhere in h
LongestCorrect(h) ==
    LET runs == {TrailingCorrect(SubSeq(h, 1, i)) : i \in 0..Len(h)}
    IN  CHOOSE longest \in runs : \A run \in runs : run <= longest

\* a step that is a recordAttempt call
Recorded == Len(history') = Len(history) + 1

\* C31: after any sequence of recordAttempt calls on a fresh or reset
\* scorer, currentCombo is the number of consecutive correct attempts at
\* the end of the sequence and bestCombo the longest run of correct
\* attempts in it; bestCombo >= currentCombo, and no recordAttempt lowers
\* bestCombo.
C31_ComboIsStreak ==
    /\ [](/\ scorer.currentCombo = TrailingCorrect(history)
          /\ scorer.bestCombo = LongestCorrect(history)
          /\ scorer.bestCombo >= scorer.currentCombo)
    /\ [][Recorded => scorer'.bestCombo >= scorer.bestCombo]_vars

\* a streak of 3, a failure, then one correct attempt
C31_Witness ==
    /\ history = <<TRUE, TRUE, TRUE, FALSE, TRUE>>
    /\ scorer.currentCombo = 1
    /\ scorer.bestCombo = 3

\* C32: no recordAttempt lowers totalScore, correctCount or incorrectCount,
\* all three stay non-negative, each call adds 1 to exactly one of
\* correctCount and incorrectCount, and correctCount + incorrectCount is the
\* number of recordAttempt calls since construction or the last reset().
C32_CountsGrow ==
    /\ [](/\ scorer.totalScore >= 0
          /\ scorer.correctCount >= 0
          /\ scorer.incorrectCount >= 0
          /\ scorer.correctCount + scorer.incorrectCount = Len(history))
    /\ [][Recorded =>
            /\ scorer'.totalScore >= scorer.totalScore
            /\ \/ /\ scorer'.correctCount = scorer.correctCount + 1
                  /\ scorer'.incorrectCount = scorer.incorrectCount
               \/ /\ scorer'.correctCount = scorer.correctCount
                  /\ scorer'.incorrectCount = scorer.incorrectCount + 1]_vars

\* a correct attempt at full time and level 5, then a failure
C32_Witness ==
    /\ history = <<TRUE, FALSE>>
    /\ attempt # <<>>
    /\ Attempted.pre.correctCount = 1
    /\ scorer.correctCount = 1
    /\ scorer.incorrectCount = 1
    /\ scorer.totalScore = 900

\* the last getStats() result
Stats == stats[1]

\* C33: getStats() reports totalAttempts = correctCount + incorrectCount and
\* accuracy = 100 * correctCount / totalAttempts rounded to one decimal (0
\* without attempts), within 0..100; correct, correct, incorrect, correct
\* gives 3, 1 and 75.0; getStats() does not change the accumulator.
\* (Stats.accuracy is in tenths of a percent.)
C33_StatsAccuracy ==
    /\ [](stats # <<>> =>
            /\ Stats.correctCount = scorer.correctCount
            /\ Stats.incorrectCount = scorer.incorrectCount
            /\ Stats.totalScore = scorer.totalScore
            /\ Stats.currentCombo = scorer.currentCombo
            /\ Stats.bestCombo = scorer.bestCombo
            /\ Stats.totalAttempts = scorer.correctCount + scorer.incorrectCount
            /\ Stats.totalAttempts = Len(history)
            /\ Stats.accuracy \in 0..1000
            /\ Stats.totalAttempts = 0 => Stats.accuracy = 0
            /\ Stats.totalAttempts > 0 =>
                 LET tenths == Stats.accuracy * Stats.totalAttempts
                     true == 1000 * scorer.correctCount
                 IN  /\ 2 * (tenths - true) <= Stats.totalAttempts
                     /\ 2 * (true - tenths) < Stats.totalAttempts
            /\ history = <<TRUE, TRUE, FALSE, TRUE>> =>
                 /\ Stats.correctCount = 3
                 /\ Stats.incorrectCount = 1
                 /\ Stats.accuracy = 750)
    /\ [][GetStats => scorer' = scorer]_vars

\* getStats() after correct, correct, incorrect, correct
C33_Witness ==
    /\ stats # <<>>
    /\ history = <<TRUE, TRUE, FALSE, TRUE>>
    /\ Stats.totalAttempts = 4
    /\ Stats.accuracy = 750

\* C39: every correct recordAttempt adds at least 100 points whatever
\* timeRemaining, maxTime and level are; after any sequence of calls on a
\* fresh or reset scorer totalScore >= 100 * correctCount, and totalScore
\* is 0 exactly when correctCount is 0.
C39_AtLeastHundred ==
    /\ (attempt # <<>> /\ Attempted.isCorrect) =>
          /\ Attempted.result.score >= 100
          /\ scorer.totalScore >= Attempted.pre.totalScore + 100
    /\ scorer.totalScore >= 100 * scorer.correctCount
    /\ scorer.totalScore = 0 <=> scorer.correctCount = 0

\* a correct attempt with no time left at level 0 earns exactly 100
C39_Witness ==
    /\ attempt # <<>>
    /\ Attempted.isCorrect
    /\ Attempted.timeRemaining = 0
    /\ Attempted.level = 0
    /\ Attempted.result.score = 100
    /\ scorer.correctCount = 3
    /\ scorer.incorrectCount = 2
    /\ scorer.totalScore = 300

(***************************************************************************)
(* Claims across the SRS engine, the queue, the timer and the controller   *)
(***************************************************************************)
\* C38: in every command state reachable from initializeCommandState by
\* updateCommandState, level < 5 implies successes is 0, 1 or 2; successes
\* reaches 3 or more only at level 5.
C38_StreakBelowThree ==
    /\ cmd.level < MAX_LEVEL => cmd.successes \in 0..(SUCCESSES_TO_ADVANCE - 1)
    /\ cmd.successes >= SUCCESSES_TO_ADVANCE => cmd.level = MAX_LEVEL

\* three successes in a row at level 5: the streak reaches 3 and the level stays
C38_Witness ==
    /\ cmd.level = MAX_LEVEL
    /\ cmd.successes = SUCCESSES_TO_ADVANCE
    /\ \E i \in 1..Len(hist) : hist[i].pre.level = MAX_LEVEL /\ hist[i].pre.successes = 0

\* the last selectNextCommand call was handed the command as it is now
QueuedNow ==
    /\ Selecting
    /\ Sel.at = now
    /\ commands = <<commandWithState(KeyNames[1], cmd)>>

\* C34: whenever shouldReviewCommand reports a command as due at time now,
\* selectNextCommand at that time has it in its due set: handed the command
\* alone, it returns it.
C34_DueAgreement ==
    (QueuedNow /\ review # <<>> /\ review[1].at = now /\ review[1].result = "true")
        => /\ Sel.result.kind = "command"
           /\ Sel.result.command.originalIndex = 0

\* What does hold, for a command state made by initializeCommandState and
\* updateCommandState: a command selectNextCommand takes as due is one
\* shouldReviewCommand reports as due, whatever the count.
C34_QueueDueIsReviewDue ==
    (QueuedNow /\ review # <<>> /\ review[1].at = now /\ Sel.result.kind = "command")
        => review[1].result = "true"

\* C35: after updateCommandState(cmd, isCorrect, t) the updated command is in
\* selectNextCommand's due set at time now if and only if
\* now >= t + [0,3,10,25,50,100][newLevel] * 2500 ms.
C35_DueAfterInterval ==
    (QueuedNow /\ hist # <<>>) =>
        LET t == hist[Len(hist)].at
            interval == <<0, 3, 10, 25, 50, 100>>[cmd.level + 1] * 2500
        IN  /\ Sel.result.kind \in {"command", "null"}
            /\ Sel.result.kind = "command" <=> now >= t + interval
            /\ cmd.level = 0 => Sel.result.kind = "command"

\* a command that reached level 1 at the start is selected 7500 ms later
C35_Witness ==
    /\ QueuedNow
    /\ hist # <<>>
    /\ hist[Len(hist)].at = ClockStart
    /\ hist[Len(hist)].isCorrect
    /\ cmd.level = 1
    /\ now = ClockStart + 3 * 2500
    /\ Sel.result.kind = "command"

\* the same command is not selected before
C35_WitnessEarly ==
    /\ QueuedNow
    /\ hist # <<>>
    /\ hist[Len(hist)].at = now
    /\ cmd.level = 1
    /\ Sel.result.kind = "null"

\* C36: when pause() is called on a running timer, getRemaining() while
\* paused reports the remaining time of the moment of the pause (the total
\* minus the time spent running, floored at 0), whether or not
\* getRemaining() was read since the last tick; getRemaining() right after
\* resuming with start() reports the value reported while paused.
C36_PauseReportsTrueRemaining ==
    [][/\ (Pause /\ isActive(timer)) =>
             /\ isPausedState(timer')
             /\ Remaining' = Remaining
             /\ Remaining' = Max(0, timer.timeLimit - ranFor)
       /\ (Start /\ isPausedState(timer) /\ isActive(timer')) =>
             Remaining' = Remaining]_vars

\* commands[i] is in the pool of the last call: due, and not the current
\* command unless it is the only due one
InPool(i) == DueInCall(i) /\ (~IsCurrent(i) \/ SoleDue(i))

\* the last call took the weighted branch: a pool without level 0, every
\* member with a numeric level
Weighted ==
    /\ Selecting
    /\ commandsIsArray
    /\ \E i \in 1..Len(commands) : InPool(i)
    /\ \A i \in 1..Len(commands) :
          InPool(i) => (IsNumber(commands[i].level) /\ commands[i].level > 0)

\* C37: in the weighted branch of selectNextCommand the commands that can
\* be returned over all random draws are exactly the pool; the record
\* returned has originalIndex equal to the command's position in the list,
\* and the list is not changed by the call.
C37_WeightedReachesPool ==
    /\ [](Weighted =>
            /\ Sel.result.kind = "command"
            /\ \E i \in 1..Len(commands) :
                  /\ InPool(i)
                  /\ Sel.result.command.originalIndex = i - 1
                  /\ Sel.result.command.keys = commands[i].keys
            /\ \A i \in 1..Len(commands) :
                  InPool(i) =>
                      \E u \in 0..(RandomResolution - 1) :
                          LET drawn == selectNextCommand(TRUE, commands,
                                           Sel.currentCommandIndex, Sel.at, u, FALSE)
                          IN  /\ drawn.kind = "command"
                              /\ drawn.command.originalIndex = i - 1
                              /\ drawn.command.keys = commands[i].keys)
    /\ [][selection' # selection => commands' = commands]_vars

\* the lightest of three pool members, not the first, is returned
C37_Witness ==
    /\ Weighted
    /\ Len(commands) = 3
    /\ Sel.currentCommandIndex = Null
    /\ \A i \in 1..3 : InPool(i)
    /\ commands[1].level = 1 /\ commands[2].level = 1 /\ commands[3].level = 5
    /\ Sel.result.command.originalIndex = 2

\* the last two presentations
LastShown == shown[Len(shown)]
PreviousShown == shown[Len(shown) - 1]

\* C40: the controller never presents the same command twice in a row
\* while at least one other command is due.
C40_NoRepeatInGame ==
    (Len(shown) >= 2 /\ LastShown.originalIndex = PreviousShown.originalIndex)
        => ~LastShown.alternatives

\* What does hold: the command the selection leaves out is the first of the
\* pack, which is never presented twice in a row while another is due.
C40_FirstOfPackNoRepeat ==
    (Len(shown) >= 2 /\ LastShown.originalIndex = 0 /\ PreviousShown.originalIndex = 0)
        => ~LastShown.alternatives

=============================================================================
